---- MODULE Spec2Model ----
(***************************************************************************)
(* Model of the voicemail transcriber's notification-to-completion         *)
(* pipeline: the Firestore history cursor, the process-local dedup map,    *)
(* the paginated history walk of retrieveHistory and the per-attachment    *)
(* save / transcribe / remove / mark-read chain.  Request handlers run as  *)
(* concurrent goroutines of one server process, which can exit and be      *)
(* started again.  Spec is the whole service.  The other specifications   *)
(* are parts of it: SpecSequential (one handler, every kind of record),    *)
(* SpecConcurrent and SpecOverlap (two handlers), SpecNotifications        *)
(* (payloads that differ), SpecRequests (requests that differ),            *)
(* SpecScheduled (fair scheduling of the handlers) and SpecCursor (the     *)
(* cursor document by its fields).                                         *)
(***************************************************************************)
EXTENDS Integers, Sequences, FiniteSets, Bags, TLC

\* ------------------------------------------------------------------ bounds
MaxEvents == 5       \* environment events over the whole run: arrivals,
                     \* process starts, requests, collaborator failures
MaxArrivals == 2     \* messages that arrive in the mailbox
MaxStarts == 2       \* process starts (the first start and the restarts)
MaxPasses == 2       \* requests served
MaxFaults == 1       \* collaborator failures, responses without transcript
PageSize == 2        \* most history records the mailbox returns per page
Bits == 4           \* width of the integers of the cursor document (64 in the code)

\* ------------------------------------------------------ the mailbox content
Msgs == {"m0", "m1", "m2", "m3", "m4", "m5"}
Handlers == {"h1", "h2"}

\* the history records of the mailbox: one per message, and two that refer to
\* no message
Records == Msgs \cup {"r0", "r1"}

NoMessage == "nil"

\* h.MessagesAdded of the record: r0 has no entry (a record of another kind
\* of change), the entry of r1 has a nil Message
MessagesAdded(rec) ==
    CASE rec = "r0" -> << >>
      [] rec = "r1" -> << [Message |-> NoMessage] >>
      [] OTHER      -> << [Message |-> rec] >>

AllowedSender == "noreply@btonephone.com"

\* msg.Payload.Headers of the message, without the Subject header: m4 has no
\* From header, the From header of m5 is no address
Headers(m) ==
    CASE m \in {"m0", "m1"} ->
                     << [Name |-> "To", Value |-> "me@example.com"],
                        [Name |-> "From", Value |-> "noreply@btonephone.com"] >>
      [] m = "m2" -> << [Name |-> "From", Value |-> "someone@example.com"] >>
      [] m = "m3" -> << [Name |-> "From",
                         Value |-> "BT Voicemail <noreply@btonephone.com>"] >>
      [] m = "m5" -> << [Name |-> "From", Value |-> "voicemail" ] >>
      [] OTHER    -> << [Name |-> "To", Value |-> "me@example.com"] >>

\* part_007:47-54: the value of the first header of that name, or ""
GetHeader(headers, name) ==
    LET c == {i \in 1..Len(headers) : headers[i].Name = name}
    IN  IF c = {} THEN ""
        ELSE headers[CHOOSE i \in c : \A j \in c : i <= j].Value

\* handler.go:202
FromHeader(m) == GetHeader(Headers(m), "From")

\* msg.Payload.Parts
Parts(m) ==
    CASE m \in {"m0", "m1"} ->
                     << [filename |-> "", attachmentId |-> ""],
                        [filename |-> "voicemail.wav", attachmentId |-> "a1"] >>
      [] m = "m2" -> << [filename |-> "voicemail.wav", attachmentId |-> "a2"] >>
      [] m = "m3" -> << [filename |-> "inline.png", attachmentId |-> ""],
                        [filename |-> "voicemail.wav", attachmentId |-> "a3"],
                        [filename |-> "", attachmentId |-> "a6"],
                        [filename |-> "second.wav", attachmentId |-> "a4"] >>
      [] OTHER    -> << [filename |-> "voicemail.wav", attachmentId |-> "a5"] >>

\* the Subject header, as a sequence of characters
SubjectHeader(m) ==
    CASE m = "m1" -> << "c", "a", "l", "l", " ",
                        "0", "7", "1", "2", "3", "4", "5", "6", "7", "8", "9" >>
      [] m = "m3" -> << "v", "m", " ", "0", "7", "1", "2", "3" >>
      [] OTHER    -> << "h", "i" >>

\* net/mail.ParseAddress on the From values above
ParseAddress(from) ==
    CASE from = "noreply@btonephone.com" ->
             [err |-> FALSE, Address |-> "noreply@btonephone.com"]
      [] from = "BT Voicemail <noreply@btonephone.com>" ->
             [err |-> FALSE, Address |-> "noreply@btonephone.com"]
      [] from = "someone@example.com" ->
             [err |-> FALSE, Address |-> "someone@example.com"]
      [] OTHER -> [err |-> TRUE, Address |-> ""]

\* ------------------------------------------------- extractPhoneNumber
Digits == {"0", "1", "2", "3", "4", "5", "6", "7", "8", "9"}
WordChars == Digits \cup {"a", "c", "h", "i", "l", "m", "v", "_"}

IsWordAt(s, i) == i >= 1 /\ i <= Len(s) /\ s[i] \in WordChars

\* \b between s[i-1] and s[i]
Boundary(s, i) == IsWordAt(s, i - 1) # IsWordAt(s, i)

\* the pattern \b07\d{9}\b matches s[i .. i+10]
MatchAt(s, i) ==
    /\ i + 10 <= Len(s)
    /\ s[i] = "0"
    /\ s[i + 1] = "7"
    /\ \A k \in 2..10 : s[i + k] \in Digits
    /\ Boundary(s, i)
    /\ Boundary(s, i + 11)

Unknown == << "U", "n", "k", "n", "o", "w", "n" >>

\* extractPhoneNumber with a pattern of 07 and ten digits
extractPhoneNumberTenDigits(subject) ==
    LET hits == {i \in 1..Len(subject) :
                    MatchAt(subject, i) /\ i + 11 <= Len(subject)
                                        /\ subject[i + 11] \in Digits}
    IN  IF hits # {}
        THEN LET first == CHOOSE i \in hits : \A j \in hits : i <= j
             IN  SubSeq(subject, first, first + 11)
        ELSE Unknown

\* extractPhoneNumber that returns the empty match when there is none
extractPhoneNumberOrEmpty(subject) ==
    LET hits == {i \in 1..Len(subject) : MatchAt(subject, i)}
    IN  IF hits # {}
        THEN LET first == CHOOSE i \in hits : \A j \in hits : i <= j
             IN  SubSeq(subject, first, first + 10)
        ELSE << >>

\* transcriber.go:80-87
extractPhoneNumber(subject) ==
    LET hits == {i \in 1..Len(subject) : MatchAt(subject, i)}
    IN  IF hits # {}
        THEN LET first == CHOOSE i \in hits : \A j \in hits : i <= j
             IN  SubSeq(subject, first, first + 10)
        ELSE Unknown

\* ------------------------------------------------------- HTTP requests
\* the bodies Pub/Sub (or anyone else) posts to /notify
WellFormed == "{\"message\":{\"data\":\"eyJoaXN0b3J5SWQiOjN9\"}}"
WellFormedLater == "{\"message\":{\"data\":\"eyJoaXN0b3J5SWQiOjl9\"}}"
NotJSON == "not json"
BadBase64 == "{\"message\":{\"data\":\"!!!\"}}"
BadPayload == "{\"message\":{\"data\":\"aGk=\"}}"
NoData == "{}"

Request(path, contentType, body) ==
    [method |-> "POST", path |-> path, contentType |-> contentType,
     body |-> body]

NotifyRequests ==
    {Request("/notify", "application/json", b) :
        b \in {WellFormed, NotJSON, BadBase64, BadPayload, NoData}}
    \cup {Request("/notify", "text/plain", WellFormed)}

\* two notifications of Pub/Sub that differ in the historyId of the payload
Notifications ==
    {Request("/notify", "application/json", b) :
        b \in {WellFormed, WellFormedLater}}

\* a notification, sent with another method than POST
GetRequest ==
    [Request("/notify", "application/json", WellFormed) EXCEPT !.method = "GET"]

\* requests to /notify that differ in method and content type
MethodRequests ==
    {GetRequest,
     Request("/notify", "application/json", WellFormed),
     Request("/notify", "text/plain", WellFormed)}

HistoryRequest == Request("/history", "", "")

NoRequest == Request("", "", "")

\* handler.go:77-78: json.Unmarshal(body, &msg) and the msg.Message.Data it
\* leaves (a missing field leaves the empty string)
UnmarshalEnvelope(body) ==
    CASE body = WellFormed -> [err |-> FALSE, Data |-> "eyJoaXN0b3J5SWQiOjN9"]
      [] body = WellFormedLater ->
                              [err |-> FALSE, Data |-> "eyJoaXN0b3J5SWQiOjl9"]
      [] body = BadBase64  -> [err |-> FALSE, Data |-> "!!!"]
      [] body = BadPayload -> [err |-> FALSE, Data |-> "aGk="]
      [] body = NoData     -> [err |-> FALSE, Data |-> ""]
      [] OTHER             -> [err |-> TRUE, Data |-> ""]

\* handler.go:85: base64.StdEncoding.DecodeString
DecodeString(data) ==
    CASE data = "eyJoaXN0b3J5SWQiOjN9" -> [err |-> FALSE, bytes |-> "{\"historyId\":3}"]
      [] data = "eyJoaXN0b3J5SWQiOjl9" -> [err |-> FALSE, bytes |-> "{\"historyId\":9}"]
      [] data = "aGk="                 -> [err |-> FALSE, bytes |-> "hi"]
      [] data = ""                     -> [err |-> FALSE, bytes |-> ""]
      [] OTHER                         -> [err |-> TRUE, bytes |-> ""]

\* handler.go:94-98: json.Unmarshal(decodedData, &notificationData)
UnmarshalNotification(bytes) ==
    CASE bytes = "{\"historyId\":3}" -> [err |-> FALSE, HistoryId |-> 3]
      [] bytes = "{\"historyId\":9}" -> [err |-> FALSE, HistoryId |-> 9]
      [] OTHER                        -> [err |-> TRUE, HistoryId |-> 0]

\* NotifyStatus without the check of the decoded payload
NotifyStatusUncheckedPayload(req, isReady, tokenReady) ==
    IF ~isReady THEN 503
    ELSE IF req.contentType # "application/json" THEN 400
    ELSE IF ~tokenReady THEN 503
    ELSE IF UnmarshalEnvelope(req.body).err THEN 400
    ELSE IF DecodeString(UnmarshalEnvelope(req.body).Data).err THEN 400
    ELSE 0

\* NotifyStatus that lets a request through once the Gmail service is loaded
NotifyStatusEitherReady(req, isReady, tokenReady) ==
    IF ~isReady /\ ~tokenReady THEN 503
    ELSE IF req.contentType # "application/json" THEN 400
    ELSE IF UnmarshalEnvelope(req.body).err THEN 400
    ELSE IF DecodeString(UnmarshalEnvelope(req.body).Data).err THEN 400
    ELSE IF UnmarshalNotification(
                DecodeString(UnmarshalEnvelope(req.body).Data).bytes).err
         THEN 400
    ELSE 0

\* NotifyStatus without the readiness checks
NotifyStatusNoReadyCheck(req, isReady, tokenReady) ==
    IF req.contentType # "application/json" THEN 400
    ELSE IF UnmarshalEnvelope(req.body).err THEN 400
    ELSE IF DecodeString(UnmarshalEnvelope(req.body).Data).err THEN 400
    ELSE IF UnmarshalNotification(
                DecodeString(UnmarshalEnvelope(req.body).Data).bytes).err
         THEN 400
    ELSE 0

\* main.go:389-400 with handler.go:62-103: the status with which /notify
\* turns the request away before any client is created, or 0
NotifyStatus(req, isReady, tokenReady) ==
    IF ~isReady THEN 503
    ELSE IF req.contentType # "application/json" THEN 400
    ELSE IF ~tokenReady THEN 503
    ELSE IF UnmarshalEnvelope(req.body).err THEN 400
    ELSE IF DecodeString(UnmarshalEnvelope(req.body).Data).err THEN 400
    ELSE IF UnmarshalNotification(
                DecodeString(UnmarshalEnvelope(req.body).Data).bytes).err
         THEN 400
    ELSE 0

\* ------------------------------------------------------------------ state
VARIABLES
    proc,               \* "down" | "init" (main's goroutine running) | "up"
    ready,              \* AppState.ready
    IsTokenReady,       \* auth.IsTokenReady
    handles,            \* the fields of AppState that were set: "srv", "fsClient"
    historyDoc,         \* gmail_state/history field by field: what was passed
                        \* to the save, the data stored, what the load returned
    fsDoc,              \* gmail_state/history: <<>> (no document) or <<historyId>>
    writer,             \* who wrote fsDoc last: "none" | "seed" | "pass"
    log,                \* the mailbox's message-added records, in order
    processedMessages,  \* the dedup map (the ids mapped to true)
    files,              \* /tmp: filename -> owner of the bytes, or NoFile
    pass,               \* per request handler: position inside the pass
    outbox,             \* bag of the emails sent
    calls,              \* per message: collaborator calls made for it
    entered,            \* per message: chain entries in this process lifetime
    failed,             \* messages for which a step of the chain returned an error
    seeded,             \* log length at the first successful seed, or -1
    starts,             \* process starts so far
    passes,             \* requests served so far
    faults,             \* collaborator failures so far
    http                \* the response the latest step wrote, if it wrote
                        \* one: its request, its status and the pass-level
                        \* error logged before it

vars == << proc, ready, IsTokenReady, handles, historyDoc, fsDoc, writer, log,
           processedMessages, files, pass, outbox, calls, entered, failed,
           seeded, starts, passes, faults, http >>

\* environment events so far
events == (Len(log) - 1) + starts + passes + faults

NoFile == "none"
Filenames == {"voicemail.wav", "second.wav"}

Idle == [pc |-> "idle", after |-> 0, page |-> << >>, reported |-> 0,
         more |-> FALSE, idx |-> 0, part |-> 0, path |-> "",
         tried |-> FALSE, removed |-> FALSE, req |-> NoRequest,
         again |-> FALSE]

NoResponse == [req |-> NoRequest, status |-> 0, err |-> "none"]

NoCalls == [fetch |-> 0, download |-> 0, transcribe |-> 0, markread |-> 0]

\* ------------------------------------------- the cursor document, by field
Modulus == 2 ^ Bits

Uint64 == 0..(Modulus - 1)
Int64 == (0 - Modulus \div 2)..(Modulus \div 2 - 1)

\* part_007:58: int64(id) of a uint64
ToInt64(id) == IF id >= Modulus \div 2 THEN id - Modulus ELSE id

\* part_007:80, 82: uint64(v) of an int64 or int
ToUint64(v) == IF v < 0 THEN v + Modulus ELSE v

\* a number with a fraction, counted in halves, cut off towards zero
Trunc(n) == IF n >= 0 THEN n \div 2 ELSE 0 - ((0 - n) \div 2)

\* what doc.DataAt("historyId") finds: a value of some type ("absent": no
\* such field); a float64 is given in halves
Field(type, v) == [type |-> type, v |-> v]

\* what the document can hold, whoever wrote it; << >> is no document
Documents ==
    {<< >>, << Field("absent", 0) >>, << Field("string", 0) >>}
    \cup {<< Field("int64", v) >> : v \in Int64}
    \cup {<< Field("int", v) >> : v \in Int64}
    \cup {<< Field("float64", n) >> : n \in 0..(2 * Modulus + 1)}

\* part_007:56-65: Set writes the one field as int64(id)
SaveHistoryID(id) == << Field("int64", ToInt64(id)) >>

\* LoadHistoryID that returns the stored integer as it is
LoadHistoryIDUnconverted(data) ==
    IF data = << >> \/ data[1].type \notin {"int64", "int", "float64"}
    THEN {[err |-> TRUE, id |-> 0]}
    ELSE IF data[1].type = "float64"
         THEN {[err |-> FALSE, id |-> Trunc(data[1].v)]}
         ELSE {[err |-> FALSE, id |-> data[1].v]}

\* part_007:67-88: what LoadHistoryIDFromFirestore can return for the data:
\* an error with 0 when the document or the field is missing or the value is
\* of another type than int64, int and float64, else uint64(v); for a
\* float64 that uint64 cannot represent the result depends on the build
LoadHistoryID(data) ==
    IF data = << >> \/ data[1].type \notin {"int64", "int", "float64"}
    THEN {[err |-> TRUE, id |-> 0]}
    ELSE IF data[1].type = "float64"
         THEN IF Trunc(data[1].v) \in Uint64
              THEN {[err |-> FALSE, id |-> Trunc(data[1].v)]}
              ELSE {[err |-> FALSE, id |-> n] : n \in Uint64}
         ELSE {[err |-> FALSE, id |-> ToUint64(data[1].v)]}

NoLoad == [err |-> FALSE, id |-> 0 - 1]

\* no save and no load made, the data given
NoTrip(data) == [saved |-> 0 - 1, data |-> data, loaded |-> NoLoad]

InitService ==
    /\ proc = "down"
    /\ ready = FALSE
    /\ IsTokenReady = FALSE
    /\ handles = {}
    /\ fsDoc = << >>
    /\ writer = "none"
    /\ log = << "m0" >>
    /\ processedMessages = {}
    /\ files = [f \in Filenames |-> NoFile]
    /\ pass = [h \in Handlers |-> Idle]
    /\ outbox = EmptyBag
    /\ calls = [m \in Msgs |-> NoCalls]
    /\ entered = [m \in Msgs |-> 0]
    /\ failed = {}
    /\ seeded = -1
    /\ starts = 0
    /\ passes = 0
    /\ faults = 0
    /\ http = NoResponse

Init ==
    /\ InitService
    /\ historyDoc = NoTrip(<< >>)

\* ---------------------------------------------------------------- helpers
Min(a, b) == IF a <= b THEN a ELSE b

\* the order in which idle handlers take requests
Earlier(g, h) == g = "h1" /\ h = "h2"

\* the message of the history record the handler is at
Cur(h) == log[pass[h].page[pass[h].idx]]

\* handler.go:185-186: the record has a MessagesAdded entry with a Message
HasMessage(rec) ==
    \E i \in 1..Len(MessagesAdded(rec)) :
        MessagesAdded(rec)[i].Message # NoMessage

\* NextAtt for which a filename is enough
NextAttByFilename(m, k) ==
    LET c == {j \in (k + 1)..Len(Parts(m)) : Parts(m)[j].filename # ""}
    IN  IF c = {} THEN 0 ELSE CHOOSE j \in c : \A i \in c : j <= i

\* handler.go:215-216: the next part after k that has both a filename and an
\* attachment id, or 0
NextAtt(m, k) ==
    LET c == {j \in (k + 1)..Len(Parts(m)) :
                 Parts(m)[j].filename # "" /\ Parts(m)[j].attachmentId # ""}
    IN  IF c = {} THEN 0 ELSE CHOOSE j \in c : \A i \in c : j <= i

\* AfterRecord that goes for the next page before the save
AfterRecordNextPageFirst(r) ==
    IF r.idx < Len(r.page)
    THEN [r EXCEPT !.idx = r.idx + 1, !.pc = "check", !.part = 0,
                   !.path = "", !.tried = FALSE, !.removed = FALSE]
    ELSE [r EXCEPT !.pc = IF r.more THEN "list" ELSE "persist",
                   !.after = r.page[Len(r.page)], !.part = 0, !.path = "",
                   !.tried = FALSE, !.removed = FALSE]

\* handler.go:184-185: on to the next record of the page, or to the save
AfterRecord(r) ==
    IF r.idx < Len(r.page)
    THEN [r EXCEPT !.idx = r.idx + 1, !.pc = "check", !.part = 0,
                   !.path = "", !.tried = FALSE, !.removed = FALSE]
    ELSE [r EXCEPT !.pc = "persist", !.part = 0, !.path = "",
                   !.tried = FALSE, !.removed = FALSE]

\* handler.go:215: on to the next attachment part of the message, or on to
\* the next record
AfterPart(r, m) ==
    LET j == NextAtt(m, r.part)
    IN  IF j = 0
        THEN AfterRecord(r)
        ELSE [r EXCEPT !.pc = "save", !.part = j, !.path = "",
                       !.tried = FALSE, !.removed = FALSE]

\* part_007:26: filepath.Join(downloadDir, part.Filename) with the one
\* download directory "/tmp"
FilePath(m, j) == Parts(m)[j].filename

\* transcriber.go:32-39: what the transcription service can answer for the
\* bytes of a file, as the map the response is turned into: "ok" is a
\* response with the transcript of the bytes, "empty" one with an empty
\* transcript, the others lack the alternatives, the channels or the results
Responses == {"ok", "empty", "noalternatives", "nochannels", "noresults"}

ResMap(res, bytes) ==
    CASE res = "ok" ->
             [results |-> [channels |->
                 << [alternatives |-> << [transcript |-> bytes] >>] >>]]
      [] res = "empty" ->
             [results |-> [channels |->
                 << [alternatives |-> << [transcript |-> ""] >>] >>]]
      [] res = "noalternatives" ->
             [results |-> [channels |-> << [alternatives |-> << >>] >>]]
      [] res = "nochannels" -> [results |-> [channels |-> << >>]]
      [] OTHER -> [metadata |-> "none"]

NoTranscript == "No transcript available."

\* transcriber.go:47-65
extractTranscript(resMap) ==
    IF "results" \in DOMAIN resMap
    THEN IF "channels" \in DOMAIN resMap.results
         THEN IF Len(resMap.results.channels) > 0
              THEN IF "alternatives" \in DOMAIN resMap.results.channels[1]
                   THEN IF Len(resMap.results.channels[1].alternatives) > 0
                        THEN resMap.results.channels[1].alternatives[1].transcript
                        ELSE NoTranscript
                   ELSE NoTranscript
              ELSE NoTranscript
         ELSE NoTranscript
    ELSE NoTranscript

\* transcriber.go:43-44: the reply built from the transcript and the caller
\* found in the subject
Email(m, transcript) ==
    [re |-> m, caller |-> extractPhoneNumber(SubjectHeader(m)),
     transcript |-> transcript]

\* the number of emails sent in reply to m
Replies(m) ==
    LET es == {e \in BagToSet(outbox) : e.re = m}
        Sum[S \in SUBSET es] ==
            IF S = {} THEN 0
            ELSE LET e == CHOOSE x \in S : TRUE
                 IN  CopiesIn(e, outbox) + Sum[S \ {e}]
    IN  Sum[es]

\* part_007:56-65: Set overwrites the document with int64(id); the document
\* is given by the id a load of it returns (SaveHistoryID and LoadHistoryID
\* are the two functions field by field)
SaveHistoryIDToFirestore(doc, id) == << id >>

\* a collaborator call answers (ok) or fails (or answers without what was
\* asked for); a failure is an event
Answer(ok) ==
    /\ ok \/ (events < MaxEvents /\ faults < MaxFaults)
    /\ faults' = IF ok THEN faults ELSE faults + 1

\* --------------------------------------------------------------- mailbox
\* the mailbox changes (a message is delivered, or something else happens
\* to it): one more history record
Arrive(m) ==
    /\ events < MaxEvents
    /\ Len(log) - 1 < MaxArrivals
    /\ \A i \in 1..Len(log) : log[i] # m
    /\ log' = Append(log, m)
    /\ pass' = [h \in Handlers |-> [pass[h] EXCEPT !.again = FALSE]]
    /\ http' = NoResponse
    /\ UNCHANGED << proc, ready, IsTokenReady, handles, historyDoc, fsDoc, writer,
                    processedMessages, files, outbox, calls, entered,
                    failed, seeded, starts, passes, faults >>

\* --------------------------------------------------------------- process
\* main.go:312-320: the process starts with empty globals in a fresh container
Start ==
    /\ proc = "down"
    /\ events < MaxEvents
    /\ starts < MaxStarts
    /\ starts' = starts + 1
    /\ proc' = "init"
    /\ ready' = FALSE
    /\ IsTokenReady' = FALSE
    /\ handles' = {}
    /\ historyDoc' = historyDoc
    /\ processedMessages' = {}
    /\ entered' = [m \in Msgs |-> 0]
    /\ http' = NoResponse
    /\ UNCHANGED << fsDoc, writer, log, files, pass, outbox, calls, failed,
                    seeded, passes, faults >>

\* handler.go:29-57: the document the seeding leaves behind; the history id
\* of the latest message is the position of its record
InitFirestoreHistory(doc, ok) ==
    IF ok /\ Len(log) > 0
    THEN SaveHistoryIDToFirestore(doc, Len(log))
    ELSE doc

\* InitServices that sets ready whatever the outcome of the two creations
InitServicesAlwaysReady ==
    /\ proc = "init"
    /\ proc' = "up"
    /\ \E gmailOk, fsOk, seedOk \in BOOLEAN :
          /\ Answer(gmailOk /\ fsOk /\ seedOk)
          /\ gmailOk \/ (fsOk /\ seedOk)
          /\ fsOk \/ seedOk
          /\ IsTokenReady' = gmailOk
          /\ handles' = IF ~gmailOk THEN {}
                        ELSE IF ~fsOk THEN {"srv"}
                        ELSE {"srv", "fsClient"}
          /\ historyDoc' = historyDoc
          /\ ready' = TRUE
          /\ IF gmailOk /\ fsOk
             THEN /\ fsDoc' = InitFirestoreHistory(fsDoc, seedOk)
                  /\ writer' = IF seedOk /\ Len(log) > 0 THEN "seed" ELSE writer
                  /\ seeded' = IF seedOk /\ Len(log) > 0 /\ seeded = -1
                               THEN Len(log) ELSE seeded
             ELSE UNCHANGED << fsDoc, writer, seeded >>
    /\ http' = NoResponse
    /\ UNCHANGED << log, processedMessages, files, pass, outbox, calls,
                    entered, failed, starts, passes >>

\* main.go:323-345: the initialisation goroutine
InitServices ==
    /\ proc = "init"
    /\ proc' = "up"
    /\ \E gmailOk, fsOk, seedOk \in BOOLEAN :
          /\ Answer(gmailOk /\ fsOk /\ seedOk)
          /\ gmailOk \/ (fsOk /\ seedOk)
          /\ fsOk \/ seedOk
          /\ IsTokenReady' = gmailOk
          /\ handles' = IF ~gmailOk THEN {}
                        ELSE IF ~fsOk THEN {"srv"}
                        ELSE {"srv", "fsClient"}
          /\ historyDoc' = historyDoc
          /\ ready' = (gmailOk /\ fsOk)
          /\ IF gmailOk /\ fsOk
             THEN /\ fsDoc' = InitFirestoreHistory(fsDoc, seedOk)
                  /\ writer' = IF seedOk /\ Len(log) > 0 THEN "seed" ELSE writer
                  /\ seeded' = IF seedOk /\ Len(log) > 0 /\ seeded = -1
                               THEN Len(log) ELSE seeded
             ELSE UNCHANGED << fsDoc, writer, seeded >>
    /\ http' = NoResponse
    /\ UNCHANGED << log, processedMessages, files, pass, outbox, calls,
                    entered, failed, starts, passes >>

\* the process goes away (instance shut down, panic, os.Exit) with its
\* goroutines and its container file system
Down ==
    /\ proc' = "down"
    /\ pass' = [h \in Handlers |-> Idle]
    /\ files' = [f \in Filenames |-> NoFile]
    /\ http' = NoResponse
    /\ UNCHANGED << ready, IsTokenReady, handles, historyDoc, fsDoc, writer, log,
                    processedMessages, outbox, calls, entered, failed,
                    seeded, starts >>

Exit ==
    /\ proc \in {"init", "up"}
    /\ Down
    /\ UNCHANGED << passes, faults >>

\* ---------------------------------------------------------------- passes
\* LoadHistoryIDFromFirestore that yields 0 in place of the stored id
LoadHistoryIDFromZero(doc) ==
    IF doc = << >>
    THEN [err |-> TRUE, id |-> 0]
    ELSE [err |-> FALSE, id |-> 0]

\* part_007:67-88: the stored history id, or an error when the document (or
\* its field) is missing
LoadHistoryIDFromFirestore(doc) ==
    IF doc = << >>
    THEN [err |-> TRUE, id |-> 0]
    ELSE [err |-> FALSE, id |-> doc[1]]

\* WriteResponse with a 500 when a message of the pass had an error
WriteResponseByOutcome(req, err) ==
    [req |-> req, status |-> IF failed # {} THEN 500 ELSE 200, err |-> err]

\* handler.go:135, 168 with 246-248: the response after retrieveHistory has
\* returned; the pass-level error was logged and is not handed to the caller
WriteResponse(req, err) == [req |-> req, status |-> 200, err |-> err]

\* Accept behind a lock that a running pass holds
AcceptExclusive(h) ==
    /\ proc \in {"init", "up"}
    /\ \A g \in Handlers : pass[g].pc = "idle"
    /\ \A g \in Handlers : ~Earlier(g, h)
    /\ events < MaxEvents
    /\ passes < MaxPasses
    /\ passes' = passes + 1

\* a request reaches the server and a goroutine serves it; of two idle
\* handlers the first serves the request
Accept(h) ==
    /\ proc \in {"init", "up"}
    /\ pass[h].pc = "idle"
    /\ \A g \in Handlers : pass[g].pc = "idle" => ~Earlier(g, h)
    /\ events < MaxEvents
    /\ passes < MaxPasses
    /\ passes' = passes + 1

\* http.Error before any client is created: nothing but the response
Reject(req, status) ==
    /\ http' = [req |-> req, status |-> status, err |-> "none"]
    /\ UNCHANGED << proc, ready, IsTokenReady, handles, historyDoc, fsDoc, writer, log,
                    processedMessages, files, pass, outbox, calls, entered,
                    failed, seeded, starts, faults >>

\* the request is a manual trigger that directly follows the response to a
\* manual trigger whose pass ended without a pass-level error (Arrive
\* withdraws the mark when the mailbox changes)
Repeated(req) ==
    /\ req = HistoryRequest
    /\ http.req = HistoryRequest
    /\ http.status = 200
    /\ http.err = "none"

\* BeginPass that starts the pass from the historyId of the notification
BeginPassFromPayload(h, req) ==
    \E got \in {"ok", "client", "store"} :
        /\ got = "ok" \/ (events + 1 < MaxEvents /\ faults < MaxFaults)
        /\ faults' = IF got = "ok" THEN faults ELSE faults + 1
        /\ IF got = "client"
           THEN /\ http' = [req |-> req, status |-> 500, err |-> "none"]
                /\ UNCHANGED << proc, ready, IsTokenReady, handles, historyDoc, fsDoc, writer, log,
                                processedMessages, files, pass, outbox, calls,
                                entered, failed, seeded, starts >>
           ELSE IF got = "store" \/ LoadHistoryIDFromFirestore(fsDoc).err
                THEN Down
                ELSE /\ pass' = [pass EXCEPT ![h] =
                         [Idle EXCEPT !.pc = "list", !.req = req,
                              !.again = Repeated(req),
                              !.after =
                                 IF req.path = "/notify"
                                 THEN UnmarshalNotification(DecodeString(
                                          UnmarshalEnvelope(req.body).Data).bytes)
                                      .HistoryId
                                 ELSE LoadHistoryIDFromFirestore(fsDoc).id]]
                     /\ http' = NoResponse
                     /\ UNCHANGED << proc, ready, IsTokenReady, handles, historyDoc, fsDoc, writer,
                                     log, processedMessages, files, outbox,
                                     calls, entered, failed, seeded, starts >>

\* handler.go:105-133, 141-166: create the clients, load the cursor and start
\* the pass from it.  A failed Gmail client is answered with 500; a failed
\* Firestore client or a failed load ends the process (logger.Error.Fatalf).
BeginPass(h, req) ==
    \E got \in {"ok", "client", "store"} :
        /\ got = "ok" \/ (events + 1 < MaxEvents /\ faults < MaxFaults)
        /\ faults' = IF got = "ok" THEN faults ELSE faults + 1
        /\ IF got = "client"
           THEN /\ http' = [req |-> req, status |-> 500, err |-> "none"]
                /\ UNCHANGED << proc, ready, IsTokenReady, handles, historyDoc, fsDoc, writer, log,
                                processedMessages, files, pass, outbox, calls,
                                entered, failed, seeded, starts >>
           ELSE IF got = "store" \/ LoadHistoryIDFromFirestore(fsDoc).err
                THEN Down
                ELSE /\ pass' = [pass EXCEPT ![h] =
                         [Idle EXCEPT !.pc = "list", !.req = req,
                              !.again = Repeated(req),
                              !.after = LoadHistoryIDFromFirestore(fsDoc).id]]
                     /\ http' = NoResponse
                     /\ UNCHANGED << proc, ready, IsTokenReady, handles, historyDoc, fsDoc, writer,
                                     log, processedMessages, files, outbox,
                                     calls, entered, failed, seeded, starts >>

\* main.go:389-414 with handler.go:59-136: /notify serves one of the requests
Notify(h, reqs) ==
    \E req \in reqs :
        IF NotifyStatus(req, ready, IsTokenReady) # 0
        THEN /\ Reject(req, NotifyStatus(req, ready, IsTokenReady))
             /\ UNCHANGED faults
        ELSE BeginPass(h, req)

\* main.go:381-414 with handler.go:59-136: /notify
PubSubHandler(h) ==
    /\ Accept(h)
    /\ Notify(h, NotifyRequests)

\* /notify serving requests of either method
PubSubRequest(h) ==
    /\ Accept(h)
    /\ Notify(h, MethodRequests)

\* /notify serving the notifications of Pub/Sub
PubSubNotification(h) ==
    /\ Accept(h)
    /\ Notify(h, Notifications)

\* main.go:417 with handler.go:138-169: /history
HistoryRetrieveHandler(h) ==
    /\ Accept(h)
    /\ BeginPass(h, HistoryRequest)

\* ListPage that takes a response without records for a failed listing
ListPageEmptyIsError(h) ==
    /\ pass[h].pc = "list"
    /\ UNCHANGED << proc, ready, IsTokenReady, handles, historyDoc, fsDoc, writer, log,
                    processedMessages, files, outbox, calls, entered, failed,
                    seeded, starts, passes >>
    /\ \E err \in {"none", "transient", "expired"} :
          /\ Answer(err = "none")
          /\ LET first == pass[h].after + 1
             IN  IF err # "none" \/ Len(log) < first
                 THEN /\ pass' = [pass EXCEPT ![h] = Idle]
                      /\ http' = WriteResponse(pass[h].req,
                                     IF err = "none" THEN "empty" ELSE err)
                 ELSE /\ http' = NoResponse
                      /\ \E last \in first..Min(pass[h].after + PageSize, Len(log)) :
                           \E rep \in {0} \cup (last..Len(log)) :
                             pass' = [pass EXCEPT ![h] =
                                [@ EXCEPT !.pc = "check",
                                          !.page = [i \in 1..(last - first + 1) |->
                                                       first + i - 1],
                                          !.reported = rep,
                                          !.more = (last < Len(log)),
                                          !.idx = 1]]

\* handler.go:172-180, 246-248: req.Pages requests the next page; a failed
\* request (the start id no longer available, or any other failure) ends the
\* pass with a logged error, a response without records ends the callback
\* before the save
ListPage(h) ==
    /\ pass[h].pc = "list"
    /\ UNCHANGED << proc, ready, IsTokenReady, handles, historyDoc, fsDoc, writer, log,
                    processedMessages, files, outbox, calls, entered, failed,
                    seeded, starts, passes >>
    /\ \E err \in {"none", "transient", "expired"} :
          /\ Answer(err = "none")
          /\ LET first == pass[h].after + 1
             IN  IF err # "none" \/ Len(log) < first
                 THEN /\ pass' = [pass EXCEPT ![h] = Idle]
                      /\ http' = WriteResponse(pass[h].req, err)
                 ELSE /\ http' = NoResponse
                      /\ \E last \in first..Min(pass[h].after + PageSize, Len(log)) :
                           \E rep \in {0} \cup (last..Len(log)) :
                             pass' = [pass EXCEPT ![h] =
                                [@ EXCEPT !.pc = "check",
                                          !.page = [i \in 1..(last - first + 1) |->
                                                       first + i - 1],
                                          !.reported = rep,
                                          !.more = (last < Len(log)),
                                          !.idx = 1]]

\* CheckProcessed that takes every record for the record of a message
CheckProcessedAnyRecord(h) ==
    /\ pass[h].pc = "check"
    /\ pass' = [pass EXCEPT ![h] =
                  IF Cur(h) \in processedMessages
                  THEN AfterRecord(@)
                  ELSE [@ EXCEPT !.pc = "mark"]]
    /\ http' = NoResponse
    /\ UNCHANGED << proc, ready, IsTokenReady, handles, historyDoc, fsDoc, writer, log,
                    processedMessages, files, outbox, calls, entered, failed,
                    seeded, starts, passes, faults >>

\* handler.go:184-193: a record without a message is passed over; for the
\* others the read of the dedup map
CheckProcessed(h) ==
    /\ pass[h].pc = "check"
    /\ pass' = [pass EXCEPT ![h] =
                  IF ~HasMessage(Cur(h)) \/ Cur(h) \in processedMessages
                  THEN AfterRecord(@)
                  ELSE [@ EXCEPT !.pc = "mark"]]
    /\ http' = NoResponse
    /\ UNCHANGED << proc, ready, IsTokenReady, handles, historyDoc, fsDoc, writer, log,
                    processedMessages, files, outbox, calls, entered, failed,
                    seeded, starts, passes, faults >>

\* AfterFetch with the failed fetch ending the walk of the page
AfterFetchAbort(r, m, ok) ==
    IF ~ok
    THEN [r EXCEPT !.pc = "persist"]
    ELSE LET parsed == ParseAddress(FromHeader(m))
         IN  IF parsed.err
             THEN AfterRecord(r)
             ELSE IF parsed.Address # AllowedSender
                  THEN AfterRecord(r)
                  ELSE AfterPart(r, m)

\* AfterFetch without the comparison with the allow-listed address
AfterFetchAnySender(r, m, ok) ==
    IF ~ok
    THEN AfterRecord(r)
    ELSE LET parsed == ParseAddress(FromHeader(m))
         IN  IF parsed.err
             THEN AfterRecord(r)
             ELSE AfterPart(r, m)

\* AfterFetch that takes a From value that does not parse for the allow-listed
\* sender
AfterFetchUnparsedSender(r, m, ok) ==
    IF ~ok
    THEN AfterRecord(r)
    ELSE LET parsed == ParseAddress(FromHeader(m))
         IN  IF parsed.err
             THEN AfterPart(r, m)
             ELSE IF parsed.Address # AllowedSender
                  THEN AfterRecord(r)
                  ELSE AfterPart(r, m)

\* handler.go:196-213: where the walk goes after the full fetch of m
AfterFetch(r, m, ok) ==
    IF ~ok
    THEN AfterRecord(r)
    ELSE LET parsed == ParseAddress(FromHeader(m))
         IN  IF parsed.err
             THEN AfterRecord(r)
             ELSE IF parsed.Address # AllowedSender
                  THEN AfterRecord(r)
                  ELSE AfterPart(r, m)

\* handler.go:194-213: the write of the dedup map, with which the chain for
\* the id starts: full fetch, From header, sender check
MarkProcessed(h) ==
    /\ pass[h].pc = "mark"
    /\ processedMessages' = processedMessages \cup {Cur(h)}
    /\ entered' = [entered EXCEPT ![Cur(h)] = @ + 1]
    /\ calls' = [calls EXCEPT ![Cur(h)].fetch = @ + 1]
    /\ \E ok \in BOOLEAN :
          /\ Answer(ok)
          /\ failed' = IF ok /\ ~ParseAddress(FromHeader(Cur(h))).err
                       THEN failed ELSE failed \cup {Cur(h)}
          /\ pass' = [pass EXCEPT ![h] = AfterFetch(@, Cur(h), ok)]
    /\ http' = NoResponse
    /\ UNCHANGED << proc, ready, IsTokenReady, handles, historyDoc, fsDoc, writer, log, files,
                    outbox, seeded, starts, passes >>

\* part_007:15-34: the path and the error SaveAttachment returns when the
\* download, the decoding or the write fails (err), or none does
SaveAttachmentReturns(m, j, err) ==
    IF err = "none"
    THEN [path |-> FilePath(m, j), err |-> "none"]
    ELSE [path |-> "", err |-> err]

\* SaveAttachment whose error the caller does not look at
SaveAttachmentUnchecked(h) ==
    /\ pass[h].pc = "save"
    /\ calls' = [calls EXCEPT ![Cur(h)].download = @ + 1]
    /\ \E err \in {"none", "fetch", "decode", "write"} :
          LET ret == SaveAttachmentReturns(Cur(h), pass[h].part, err)
          IN  /\ Answer(ret.err = "none")
              /\ IF ret.err = "none"
                 THEN /\ files' = [files EXCEPT ![ret.path] = Cur(h)]
                      /\ pass' = [pass EXCEPT ![h] =
                                    [@ EXCEPT !.pc = "transcribe",
                                              !.path = ret.path]]
                      /\ UNCHANGED failed
                 ELSE /\ failed' = failed \cup {Cur(h)}
                      /\ pass' = [pass EXCEPT ![h] = [@ EXCEPT !.pc = "transcribe",
                                              !.path = FilePath(Cur(h),
                                                           pass[h].part)]]
                      /\ UNCHANGED files
    /\ http' = NoResponse
    /\ UNCHANGED << proc, ready, IsTokenReady, handles, historyDoc, fsDoc, writer, log,
                    processedMessages, outbox, entered, seeded, starts, passes >>

\* SaveAttachment whose failure ends the part loop of the message
SaveAttachmentBreak(h) ==
    /\ pass[h].pc = "save"
    /\ calls' = [calls EXCEPT ![Cur(h)].download = @ + 1]
    /\ \E err \in {"none", "fetch", "decode", "write"} :
          LET ret == SaveAttachmentReturns(Cur(h), pass[h].part, err)
          IN  /\ Answer(ret.err = "none")
              /\ IF ret.err = "none"
                 THEN /\ files' = [files EXCEPT ![ret.path] = Cur(h)]
                      /\ pass' = [pass EXCEPT ![h] =
                                    [@ EXCEPT !.pc = "transcribe",
                                              !.path = ret.path]]
                      /\ UNCHANGED failed
                 ELSE /\ failed' = failed \cup {Cur(h)}
                      /\ pass' = [pass EXCEPT ![h] = AfterRecord(@)]
                      /\ UNCHANGED files
    /\ http' = NoResponse
    /\ UNCHANGED << proc, ready, IsTokenReady, handles, historyDoc, fsDoc, writer, log,
                    processedMessages, outbox, entered, seeded, starts, passes >>

\* SaveAttachment after whose failure the message is marked read
SaveAttachmentMarksRead(h) ==
    /\ pass[h].pc = "save"
    /\ calls' = [calls EXCEPT ![Cur(h)].download = @ + 1]
    /\ \E err \in {"none", "fetch", "decode", "write"} :
          LET ret == SaveAttachmentReturns(Cur(h), pass[h].part, err)
          IN  /\ Answer(ret.err = "none")
              /\ IF ret.err = "none"
                 THEN /\ files' = [files EXCEPT ![ret.path] = Cur(h)]
                      /\ pass' = [pass EXCEPT ![h] =
                                    [@ EXCEPT !.pc = "transcribe",
                                              !.path = ret.path]]
                      /\ UNCHANGED failed
                 ELSE /\ failed' = failed \cup {Cur(h)}
                      /\ pass' = [pass EXCEPT ![h] = [@ EXCEPT !.pc = "markread"]]
                      /\ UNCHANGED files
    /\ http' = NoResponse
    /\ UNCHANGED << proc, ready, IsTokenReady, handles, historyDoc, fsDoc, writer, log,
                    processedMessages, outbox, entered, seeded, starts, passes >>

\* handler.go:217-221 with part_007:15-34: download, decode and write the part
SaveAttachment(h) ==
    /\ pass[h].pc = "save"
    /\ calls' = [calls EXCEPT ![Cur(h)].download = @ + 1]
    /\ \E err \in {"none", "fetch", "decode", "write"} :
          LET ret == SaveAttachmentReturns(Cur(h), pass[h].part, err)
          IN  /\ Answer(ret.err = "none")
              /\ IF ret.err = "none"
                 THEN /\ files' = [files EXCEPT ![ret.path] = Cur(h)]
                      /\ pass' = [pass EXCEPT ![h] =
                                    [@ EXCEPT !.pc = "transcribe",
                                              !.path = ret.path]]
                      /\ UNCHANGED failed
                 ELSE /\ failed' = failed \cup {Cur(h)}
                      /\ pass' = [pass EXCEPT ![h] = AfterPart(@, Cur(h))]
                      /\ UNCHANGED files
    /\ http' = NoResponse
    /\ UNCHANGED << proc, ready, IsTokenReady, handles, historyDoc, fsDoc, writer, log,
                    processedMessages, outbox, entered, seeded, starts, passes >>

\* TranscribeAndRespond followed by MarkAsRead instead of os.Remove
TranscribeThenMarkRead(h) ==
    /\ pass[h].pc = "transcribe"
    /\ calls' = [calls EXCEPT ![Cur(h)].transcribe = @ + 1]
    /\ pass' = [pass EXCEPT ![h] = [@ EXCEPT !.pc = "markread", !.tried = TRUE]]
    /\ \E res \in Responses \cup {"failure"} :
          /\ Answer(res = "ok")
          /\ IF res # "failure" /\ files[pass[h].path] # NoFile
             THEN /\ outbox' = outbox (+)
                      SetToBag({Email(Cur(h), extractTranscript(
                                    ResMap(res, files[pass[h].path])))})
                  /\ UNCHANGED failed
             ELSE /\ failed' = failed \cup {Cur(h)}
                  /\ UNCHANGED outbox
    /\ http' = NoResponse
    /\ UNCHANGED << proc, ready, IsTokenReady, handles, historyDoc, fsDoc, writer, log,
                    processedMessages, files, entered, seeded, starts, passes >>

\* TranscribeAndRespond whose error ends the pass: no delete, no mark-read,
\* the rest of the page not walked, the cursor not saved
TranscribeAndRespondAborts(h) ==
    /\ pass[h].pc = "transcribe"
    /\ calls' = [calls EXCEPT ![Cur(h)].transcribe = @ + 1]
    /\ \E res \in Responses \cup {"failure"} :
          /\ Answer(res = "ok")
          /\ IF res # "failure" /\ files[pass[h].path] # NoFile
             THEN /\ outbox' = outbox (+)
                      SetToBag({Email(Cur(h), extractTranscript(
                                    ResMap(res, files[pass[h].path])))})
                  /\ pass' = [pass EXCEPT ![h] =
                                [@ EXCEPT !.pc = "remove", !.tried = TRUE]]
                  /\ http' = NoResponse
                  /\ UNCHANGED failed
             ELSE /\ failed' = failed \cup {Cur(h)}
                  /\ pass' = [pass EXCEPT ![h] = Idle]
                  /\ http' = WriteResponse(pass[h].req, "history")
                  /\ UNCHANGED outbox
    /\ UNCHANGED << proc, ready, IsTokenReady, handles, historyDoc, fsDoc, writer, log,
                    processedMessages, files, entered, seeded, starts, passes >>

\* handler.go:223-227 with transcriber.go:18-45: transcribe the file at the
\* path and send the reply with what extractTranscript finds in the
\* response; an error (the key could not be loaded, the transcription call
\* failed or was not answered in time, or the send failed) is logged and the
\* walk goes on
TranscribeAndRespond(h) ==
    /\ pass[h].pc = "transcribe"
    /\ calls' = [calls EXCEPT ![Cur(h)].transcribe = @ + 1]
    /\ pass' = [pass EXCEPT ![h] = [@ EXCEPT !.pc = "remove", !.tried = TRUE]]
    /\ \E res \in Responses \cup {"failure"} :
          /\ Answer(res = "ok")
          /\ IF res # "failure" /\ files[pass[h].path] # NoFile
             THEN /\ outbox' = outbox (+)
                      SetToBag({Email(Cur(h), extractTranscript(
                                    ResMap(res, files[pass[h].path])))})
                  /\ UNCHANGED failed
             ELSE /\ failed' = failed \cup {Cur(h)}
                  /\ UNCHANGED outbox
    /\ http' = NoResponse
    /\ UNCHANGED << proc, ready, IsTokenReady, handles, historyDoc, fsDoc, writer, log,
                    processedMessages, files, entered, seeded, starts, passes >>

\* RemoveFile that keeps the file when the chain of the message had an error
RemoveFileUnlessFailed(h) ==
    /\ pass[h].pc = "remove"
    /\ files' = IF Cur(h) \in failed
                THEN files
                ELSE [files EXCEPT ![pass[h].path] = NoFile]
    /\ pass' = [pass EXCEPT ![h] = [@ EXCEPT !.pc = "markread", !.removed = TRUE]]
    /\ http' = NoResponse
    /\ UNCHANGED << proc, ready, IsTokenReady, handles, historyDoc, fsDoc, writer, log,
                    processedMessages, outbox, calls, entered, failed, seeded,
                    starts, passes, faults >>

\* handler.go:229: os.Remove(filePath)
RemoveFile(h) ==
    /\ pass[h].pc = "remove"
    /\ files' = [files EXCEPT ![pass[h].path] = NoFile]
    /\ pass' = [pass EXCEPT ![h] = [@ EXCEPT !.pc = "markread", !.removed = TRUE]]
    /\ http' = NoResponse
    /\ UNCHANGED << proc, ready, IsTokenReady, handles, historyDoc, fsDoc, writer, log,
                    processedMessages, outbox, calls, entered, failed, seeded,
                    starts, passes, faults >>

\* handler.go:230 with part_007:36-45: MarkAsRead, then the next part
MarkAsRead(h) ==
    /\ pass[h].pc = "markread"
    /\ calls' = [calls EXCEPT ![Cur(h)].markread = @ + 1]
    /\ pass' = [pass EXCEPT ![h] = AfterPart(@, Cur(h))]
    /\ http' = NoResponse
    /\ UNCHANGED << proc, ready, IsTokenReady, handles, historyDoc, fsDoc, writer, log,
                    processedMessages, files, outbox, entered, failed, seeded,
                    starts, passes, faults >>

\* handler.go:237-243: save the page's history id unless it is 0; a failed
\* save is logged; then the next page, if the response named one
PersistCursor(h) ==
    /\ pass[h].pc = "persist"
    /\ \E ok \in BOOLEAN :
          /\ Answer(ok)
          /\ ok \/ pass[h].reported # 0
          /\ IF pass[h].reported # 0 /\ ok
             THEN /\ fsDoc' = SaveHistoryIDToFirestore(fsDoc, pass[h].reported)
                  /\ writer' = "pass"
             ELSE UNCHANGED << fsDoc, writer >>
    /\ pass' = [pass EXCEPT ![h] =
                  IF @.more
                  THEN [Idle EXCEPT !.pc = "list", !.req = pass[h].req,
                                    !.again = pass[h].again,
                                    !.after = pass[h].page[Len(pass[h].page)]]
                  ELSE Idle]
    /\ http' = IF pass[h].more THEN NoResponse
               ELSE WriteResponse(pass[h].req, "none")
    /\ UNCHANGED << proc, ready, IsTokenReady, handles, historyDoc, log, processedMessages, files,
                    outbox, calls, entered, failed, seeded, starts, passes >>

\* handler.go:171-249
retrieveHistory(h) ==
    \/ ListPage(h)
    \/ CheckProcessed(h)
    \/ MarkProcessed(h)
    \/ SaveAttachment(h)
    \/ TranscribeAndRespond(h)
    \/ RemoveFile(h)
    \/ MarkAsRead(h)
    \/ PersistCursor(h)

Next ==
    \/ \E m \in Records : Arrive(m)
    \/ Start
    \/ InitServices
    \/ Exit
    \/ \E h \in Handlers : PubSubHandler(h)
    \/ \E h \in Handlers : HistoryRetrieveHandler(h)
    \/ \E h \in Handlers : retrieveHistory(h)

Spec == Init /\ [][Next]_vars

\* the service one request at a time: every kind of record, both endpoints,
\* one handler goroutine
NextSequential ==
    \/ \E m \in Records : Arrive(m)
    \/ Start
    \/ InitServices
    \/ Exit
    \/ PubSubHandler("h1")
    \/ HistoryRetrieveHandler("h1")
    \/ retrieveHistory("h1")

SpecSequential == Init /\ [][NextSequential]_vars

\* the service with concurrent passes started by /notify: three messages,
\* the manual endpoint unused
NextConcurrent ==
    \/ \E m \in {"m1", "m2", "m3"} : Arrive(m)
    \/ Start
    \/ InitServices
    \/ Exit
    \/ \E h \in Handlers : PubSubHandler(h)
    \/ \E h \in Handlers : retrieveHistory(h)

SpecConcurrent == Init /\ [][NextConcurrent]_vars

\* two notifications served by two handler goroutines while the message with
\* two attachments arrives
NextOverlap ==
    \/ Arrive("m3")
    \/ Start
    \/ InitServices
    \/ Exit
    \/ \E h \in Handlers : PubSubHandler(h)
    \/ \E h \in Handlers : retrieveHistory(h)

SpecOverlap == Init /\ [][NextOverlap]_vars

\* the service with the manual endpoint unused and no shutdown, receiving
\* notifications with different payloads
NextNotifications ==
    \/ \E m \in {"m1", "m2"} : Arrive(m)
    \/ Start
    \/ InitServices
    \/ \E h \in Handlers : PubSubNotification(h)
    \/ \E h \in Handlers : retrieveHistory(h)

SpecNotifications == Init /\ [][NextNotifications]_vars

\* the service with the manual endpoint unused, /notify receiving requests of
\* either method
NextRequests ==
    \/ \E m \in {"m1", "m2"} : Arrive(m)
    \/ Start
    \/ InitServices
    \/ Exit
    \/ \E h \in Handlers : PubSubRequest(h)
    \/ \E h \in Handlers : retrieveHistory(h)

SpecRequests == Init /\ [][NextRequests]_vars

\* the service started once and kept running, passes asked for at the manual
\* endpoint; every handler goroutine that has a step to take is scheduled,
\* and every call it makes returns, with an answer or with an error
NextScheduled ==
    \/ \E m \in {"m1", "m2"} : Arrive(m)
    \/ Start
    \/ InitServices
    \/ \E h \in Handlers : HistoryRetrieveHandler(h)
    \/ \E h \in Handlers : retrieveHistory(h)

SpecScheduled ==
    /\ Init
    /\ [][NextScheduled]_vars
    /\ \A h \in Handlers : WF_vars(retrieveHistory(h))

\* part_007:56-65: SaveHistoryIDToFirestore(id) for an id its callers pass
\* (handler.go:46-50, 237-238: never 0)
Store(id) ==
    /\ historyDoc.loaded = NoLoad
    /\ historyDoc' = [historyDoc EXCEPT !.saved = id, !.data = SaveHistoryID(id)]
    /\ UNCHANGED << proc, ready, IsTokenReady, handles, fsDoc, writer, log,
                    processedMessages, files, pass, outbox, calls, entered,
                    failed, seeded, starts, passes, faults, http >>

\* part_007:67-88: LoadHistoryIDFromFirestore
Load ==
    /\ historyDoc.loaded = NoLoad
    /\ \E ret \in LoadHistoryID(historyDoc.data) :
          historyDoc' = [historyDoc EXCEPT !.loaded = ret]
    /\ UNCHANGED << proc, ready, IsTokenReady, handles, fsDoc, writer, log,
                    processedMessages, files, pass, outbox, calls, entered,
                    failed, seeded, starts, passes, faults, http >>

\* the two functions of the cursor document alone: any document to begin
\* with, saves of any id but 0, one load
InitCursor ==
    /\ InitService
    /\ \E data \in Documents : historyDoc = NoTrip(data)

NextCursor ==
    \/ \E id \in Uint64 \ {0} : Store(id)
    \/ Load

SpecCursor == InitCursor /\ [][NextCursor]_vars

\* ------------------------------------------------------------- properties
\* handler.go:205-216: the sender parses, is the allow-listed one, and the
\* message has a part that counts as an attachment
Eligible(m) ==
    /\ ~ParseAddress(FromHeader(m)).err
    /\ ParseAddress(FromHeader(m)).Address = AllowedSender
    /\ NextAtt(m, 0) # 0

NumAtt(m) ==
    Cardinality({j \in 1..Len(Parts(m)) :
                    Parts(m)[j].filename # "" /\ Parts(m)[j].attachmentId # ""})

\* a handler is inside the chain of message m
InChain(h, m) ==
    /\ pass[h].pc \in {"mark", "save", "transcribe", "remove", "markread"}
    /\ Cur(h) = m

\* C1: within one process lifetime the processing chain of a message id is
\* entered by at most one pass, however many passes (sequential or
\* concurrent) see the id in their pages; every other occurrence is skipped.
C1_ChainEnteredOnce == \A m \in Msgs : entered[m] <= 1

\* C2: the persisted history cursor never decreases, whatever the order in
\* which startup seeding and the passes save it.
C2_CursorMonotonic ==
    [][(fsDoc # << >> /\ fsDoc' # << >>) => fsDoc'[1] >= fsDoc[1]]_vars

\* C3: whenever the persisted cursor holds a value written by retrieveHistory,
\* every message-added record since the first seed with a position at or
\* below that value has been dispatched to the chain or skipped by the dedup
\* check.
C3_CheckpointBehindWork ==
    writer = "pass" =>
        \A i \in 1..Len(log) :
            (i > seeded /\ i <= fsDoc[1] /\ HasMessage(log[i]))
                => calls[log[i]].fetch > 0

\* C4: when a persisted cursor exists, process startup (InitFirestoreHistory
\* included) leaves it unchanged.
C4_StartupKeepsCursor ==
    [][(proc = "init" /\ proc' = "up" /\ fsDoc # << >>) => fsDoc' = fsDoc]_vars

\* C5: with no collaborator failure, once a pass has ended with the cursor at
\* the mailbox tip and no other pass running, every message of the
\* allow-listed sender with an attachment that arrived after the first seed
\* has been given exactly one transcription-and-reply attempt.
C5_NoVoicemailLost ==
    [][( /\ \E h \in Handlers : pass[h].pc # "idle" /\ pass'[h].pc = "idle"
         /\ proc' # "down"
         /\ faults' = 0
         /\ seeded >= 0
         /\ \A h \in Handlers : pass'[h].pc = "idle"
         /\ fsDoc' = << Len(log) >> )
       => \A i \in 1..Len(log) :
             (i > seeded /\ Eligible(log[i])) =>
                 /\ calls'[log[i]].fetch = 1
                 /\ calls'[log[i]].transcribe = NumAtt(log[i])]_vars

\* the sender parses and is not the allow-listed one
Mismatch(m) ==
    /\ ~ParseAddress(FromHeader(m)).err
    /\ ParseAddress(FromHeader(m)).Address # AllowedSender

\* the message of the k-th record of the page handler h walks
PageMsg(h, k) == log[pass[h].page[k]]

\* the step in which handler h leaves the save of its page: unless the page
\* reported 0 or the store failed, the document holds the page's history id
PersistSaves ==
    \A h \in Handlers :
        ( /\ pass[h].pc = "persist"
          /\ pass'[h].pc # "persist"
          /\ proc' # "down"
          /\ faults' = faults
          /\ pass[h].reported # 0 )
        => fsDoc' = << pass[h].reported >>

\* C6: when a pass has walked a page, every record of the page has been
\* reached, and every allow-listed message of the page with an attachment
\* whose own chain returned no error has been transcribed, replied to and
\* marked read, whatever happened to the other messages of the page; the
\* page's history id is then saved.
C6_PartialFailureIsolation ==
    /\ [](\A h \in Handlers :
             pass[h].pc = "persist" =>
                 \A k \in 1..Len(pass[h].page) :
                     /\ HasMessage(PageMsg(h, k))
                            => PageMsg(h, k) \in processedMessages
                     /\ ( /\ Eligible(PageMsg(h, k))
                          /\ PageMsg(h, k) \notin failed
                          /\ \A g \in Handlers : ~InChain(g, PageMsg(h, k)) )
                        => /\ calls[PageMsg(h, k)].transcribe >= 1
                           /\ Replies(PageMsg(h, k)) >= 1
                           /\ calls[PageMsg(h, k)].markread >= 1)
    /\ [][PersistSaves]_vars

\* a page whose first message failed and whose second, valid message was
\* transcribed, replied to and marked read
C6_Witness ==
    \E h \in Handlers :
        /\ pass[h].pc = "persist"
        /\ Len(pass[h].page) = 2
        /\ PageMsg(h, 1) \in failed
        /\ Eligible(PageMsg(h, 2))
        /\ PageMsg(h, 2) \notin failed
        /\ calls[PageMsg(h, 2)].transcribe >= 1
        /\ Replies(PageMsg(h, 2)) >= 1
        /\ calls[PageMsg(h, 2)].markread >= 1

\* C7: for a message whose parsed From address is not the allow-listed one
\* there is no attachment download, no transcription, no reply and no
\* mark-read; the skip reports no error, the walk goes on with the next
\* record (or the save), and the save stores the page's history id.
C7_SenderFiltering ==
    /\ [](\A m \in Msgs :
             Mismatch(m) =>
                 /\ calls[m].download = 0
                 /\ calls[m].transcribe = 0
                 /\ calls[m].markread = 0
                 /\ Replies(m) = 0)
    /\ [][\A h \in Handlers :
             ( /\ pass[h].pc = "mark"
               /\ pass'[h].pc # "mark"
               /\ proc' # "down"
               /\ faults' = faults
               /\ Mismatch(Cur(h)) )
             => /\ failed' = failed
                /\ pass'[h].reported = pass[h].reported
                /\ IF pass[h].idx < Len(pass[h].page)
                   THEN pass'[h].pc = "check" /\ pass'[h].idx = pass[h].idx + 1
                   ELSE pass'[h].pc = "persist"]_vars
    /\ [][PersistSaves]_vars

\* a fetched message of another sender lies at the position a pass saved
C7_Witness ==
    /\ writer = "pass"
    /\ fsDoc # << >>
    /\ fsDoc[1] <= Len(log)
    /\ Mismatch(log[fsDoc[1]])
    /\ calls[log[fsDoc[1]]].fetch >= 1
    /\ log[fsDoc[1]] \notin failed

\* C8: a file exists under /tmp only while some handler is between the
\* SaveAttachment that wrote its path and the os.Remove of that path, and the
\* step that ends the per-attachment processing leaves no file at the path,
\* whether TranscribeAndRespond succeeded or failed.
C8_Cleanup ==
    /\ [](\A f \in Filenames :
             files[f] # NoFile =>
                 \E h \in Handlers :
                     pass[h].pc \in {"transcribe", "remove"} /\ pass[h].path = f)
    /\ [][\A h \in Handlers :
             (pass[h].pc = "remove" /\ pass'[h].pc = "markread")
             => files'[pass[h].path] = NoFile]_vars

\* the attachment step has finished after a failed transcription and the
\* file is gone
C8_Witness ==
    \E h \in Handlers :
        /\ pass[h].pc = "markread"
        /\ Cur(h) \in failed
        /\ calls[Cur(h)].transcribe >= 1
        /\ Replies(Cur(h)) = 0
        /\ files[pass[h].path] = NoFile

\* C9: the file is deleted after the transcription attempt and before the
\* message is marked read: a handler about to delete has made the attempt, a
\* handler about to mark read has made the attempt and deleted the file, and
\* only such a handler marks a message read.
C9_CleanupOrdering ==
    /\ [](\A h \in Handlers :
             /\ pass[h].pc = "remove" => pass[h].tried /\ ~pass[h].removed
             /\ pass[h].pc = "markread" => pass[h].tried /\ pass[h].removed)
    /\ [][\A m \in Msgs :
             calls'[m].markread > calls[m].markread =>
                 \E h \in Handlers :
                     /\ pass[h].pc = "markread"
                     /\ Cur(h) = m
                     /\ pass[h].tried
                     /\ pass[h].removed]_vars

\* a message was marked read although its transcription or reply failed
C9_Witness ==
    \E m \in Msgs :
        /\ m \in failed
        /\ calls[m].transcribe >= 1
        /\ Replies(m) = 0
        /\ calls[m].markread >= 1

\* C10: a pass alone, from a persisted cursor, over one page with the one
\* record of m1 (allow-listed, one attachment, subject with 07123456789),
\* makes exactly one transcription call on the bytes of m1, sends exactly one
\* email with that transcript and the caller 07123456789, marks m1 read
\* exactly once and saves the page's history id.
C10_HappyPath ==
    /\ [](\A h \in Handlers :
             ( /\ pass[h].pc = "persist"
               /\ Len(pass[h].page) = 1
               /\ PageMsg(h, 1) = "m1"
               /\ \A g \in Handlers \ {h} : pass[g].pc = "idle"
               /\ calls["m1"].fetch = 1
               /\ \A m \in Msgs \ {"m1"} : calls[m].fetch = 0
               /\ "m1" \notin failed
               /\ faults = 0 )
             => /\ calls["m1"].download = 1
                /\ calls["m1"].transcribe = 1
                /\ calls["m1"].markread = 1
                /\ outbox = SetToBag({[re |-> "m1",
                                       caller |-> << "0", "7", "1", "2", "3", "4",
                                                     "5", "6", "7", "8", "9" >>,
                                       transcript |-> "m1"]}))
    /\ [][PersistSaves]_vars

\* the happy path has run to its end: one email, one mark-read, the cursor at
\* the record of m1
C10_Witness ==
    /\ \A h \in Handlers : pass[h].pc = "idle"
    /\ writer = "pass"
    /\ fsDoc # << >>
    /\ fsDoc[1] <= Len(log)
    /\ log[fsDoc[1]] = "m1"
    /\ calls["m1"] = [fetch |-> 1, download |-> 1, transcribe |-> 1,
                      markread |-> 1]
    /\ \A m \in Msgs \ {"m1"} : calls[m].fetch = 0
    /\ BagCardinality(outbox) = 1
    /\ Replies("m1") = 1

\* a step in which a request got as far as the cursor load without a
\* collaborator failure and the store held no document
LoadsNothing ==
    /\ passes' = passes + 1
    /\ faults' = faults
    /\ http' = NoResponse
    /\ LoadHistoryIDFromFirestore(fsDoc).err

\* C11: when a pass (webhook or manual) loads the cursor and the store has no
\* record, the pass seeds the cursor from the mailbox's latest position and
\* proceeds from there; it neither starts from zero nor ends the service.
C11_FirstRunSeeds ==
    [][LoadsNothing =>
          /\ proc' = proc
          /\ fsDoc' = << Len(log) >>
          /\ \E h \in Handlers :
                /\ pass[h].pc = "idle"
                /\ pass'[h].pc = "list"
                /\ pass'[h].after = Len(log)]_vars

\* handler.go:77-103: one of the three decoding steps of the envelope fails
Malformed(req) ==
    \/ UnmarshalEnvelope(req.body).err
    \/ DecodeString(UnmarshalEnvelope(req.body).Data).err
    \/ UnmarshalNotification(
           DecodeString(UnmarshalEnvelope(req.body).Data).bytes).err

\* the step answers a /notify request without starting a pass
AnswersNotify ==
    /\ passes' = passes + 1
    /\ http'.req.path = "/notify"

\* no cursor load, no pass, no cursor write, no change of the processed-set
NothingDone ==
    /\ proc' = proc
    /\ pass' = pass
    /\ fsDoc' = fsDoc
    /\ writer' = writer
    /\ processedMessages' = processedMessages
    /\ calls' = calls

\* C12 as stated: a /notify request whose body is not valid JSON, whose
\* message.data is not valid base64 or whose decoded payload is not valid
\* JSON is answered with a 4xx status and starts no cursor load, no pass and
\* no cursor write.
C12_MalformedEnvelope ==
    /\ [](\A h \in Handlers :
             pass[h].req.path = "/notify" => ~Malformed(pass[h].req))
    /\ [][(AnswersNotify /\ Malformed(http'.req))
            => (http'.status \in 400..499 /\ NothingDone)]_vars

\* C12 amended: a ready service (AppState.ready and auth.IsTokenReady) answers
\* such a request with a 4xx status and starts no cursor load, no pass and no
\* cursor write; a service that is not ready answers it with 503, and does
\* as little.
C12_MalformedEnvelopeWhenReady ==
    /\ [](\A h \in Handlers :
             pass[h].req.path = "/notify" => ~Malformed(pass[h].req))
    /\ [][(AnswersNotify /\ Malformed(http'.req))
            => /\ NothingDone
               /\ http'.status = IF ready /\ IsTokenReady THEN 400 ELSE 503]_vars

\* a ready service with a persisted cursor has turned away an envelope whose
\* data is not base64
C12_Witness ==
    /\ http.req = Request("/notify", "application/json", BadBase64)
    /\ http.status = 400
    /\ ready
    /\ IsTokenReady
    /\ fsDoc # << >>
    /\ \A h \in Handlers : pass[h].pc = "idle"

\* C13: while the service is not ready (AppState.ready false or
\* auth.IsTokenReady false) every request to /notify is answered with 503 and
\* starts no cursor load and no pass and changes neither the persisted cursor
\* nor the processed-set.
C13_ReadinessGate ==
    /\ [][\A h \in Handlers :
             (pass[h].pc = "idle" /\ pass'[h].pc # "idle"
                                  /\ pass'[h].req.path = "/notify")
             => (ready /\ IsTokenReady)]_vars
    /\ [][(AnswersNotify /\ ~(ready /\ IsTokenReady))
            => (http'.status = 503 /\ NothingDone)]_vars

\* a well-formed notification was answered with 503 by a process whose
\* initialisation has ended without making it ready
C13_Witness ==
    /\ proc = "up"
    /\ ~ready
    /\ http.req = Request("/notify", "application/json", WellFormed)
    /\ http.status = 503
    /\ fsDoc # << >>

\* the step in which handler h ends a pass for a /notify request
EndsNotifyPass(h) ==
    /\ pass[h].pc # "idle"
    /\ pass'[h].pc = "idle"
    /\ proc' # "down"
    /\ pass[h].req.path = "/notify"

\* C14: a well-formed notification received by a ready service whose pass ran
\* (the listing did not fail) is answered with 200 whatever happened to the
\* messages of the pass.
C14_AlwaysOK ==
    [][\A h \in Handlers :
          (EndsNotifyPass(h) /\ http'.err = "none")
          => /\ http'.req = pass[h].req
             /\ ~Malformed(http'.req)
             /\ http'.status = 200]_vars

\* the only request so far, a notification, was answered with 200 after a
\* pass in which the transcription of a message failed
C14_Witness ==
    /\ passes = 1
    /\ http.req.path = "/notify"
    /\ http.status = 200
    /\ http.err = "none"
    /\ \E m \in failed : calls[m].transcribe >= 1 /\ Replies(m) = 0

\* C15: when the change-log listing fails for the whole pass (expired start
\* cursor, mailbox failure) the webhook response is a 5xx status, never 200.
C15_PassFailureReachesCaller ==
    [][\A h \in Handlers :
          (EndsNotifyPass(h) /\ http'.err # "none")
          => http'.status \in 500..599]_vars

\* C16: when the change log reports that the start cursor is no longer
\* available, the pass ends with an outcome for its caller that differs from
\* the outcome of a transient listing error, and the persisted cursor is left
\* unchanged.
C16_ExpiredDistinct ==
    [][\A h \in Handlers :
          (pass[h].pc = "list" /\ pass'[h].pc = "idle" /\ http'.err = "expired")
          => /\ [req |-> http'.req, status |-> http'.status]
                  # [req |-> pass[h].req,
                     status |-> WriteResponse(pass[h].req, "transient").status]
             /\ fsDoc' = fsDoc]_vars

\* the step in which handler h starts a pass for a /history request
StartsManualPass(h) ==
    /\ pass[h].pc = "idle"
    /\ pass'[h].pc = "list"
    /\ pass'[h].req = HistoryRequest

\* the step is taken by handler h inside its pass, the mailbox unchanged
StepOf(h) ==
    /\ pass'[h] # pass[h]
    /\ proc' # "down"
    /\ log' = log

\* no transcription, no reply, no mark-read, no cursor write
NoFurtherWork ==
    /\ fsDoc' = fsDoc
    /\ outbox' = outbox
    /\ \A m \in Msgs :
          /\ calls'[m].transcribe = calls[m].transcribe
          /\ calls'[m].markread = calls[m].markread

C18_EntryNeverBlocked ==
    /\ [](\A h \in Handlers :
             (pass[h].pc # "idle" /\ proc # "down")
             => ENABLED retrieveHistory(h))
    /\ []((/\ proc \in {"init", "up"}
           /\ events < MaxEvents
           /\ passes < MaxPasses
           /\ \E g \in Handlers : pass[g].pc = "idle")
          => /\ \E g \in Handlers : ENABLED PubSubHandler(g)
             /\ \E g \in Handlers : ENABLED HistoryRetrieveHandler(g)
             /\ fsDoc # << >> =>
                   \E g \in Handlers :
                      ENABLED (HistoryRetrieveHandler(g) /\ pass'[g].pc = "list"))

\* a second request was accepted, ran its pass and was answered with 200
\* while the first handler has not come back from its transcription call
C18_Witness ==
    /\ pass["h1"].pc = "transcribe"
    /\ pass["h2"].pc = "idle"
    /\ passes = 2
    /\ starts = 1
    /\ http.status = 200
    /\ http.err = "none"

\* C19: the check against processedMessages passes (the message is processed)
\* exactly for the first occurrence of an id in the process lifetime and
\* fails for every later one; the set only grows while the process lives and
\* is empty after a start.
C19_DedupContract ==
    /\ [][\A h \in Handlers :
             (pass[h].pc = "check" /\ pass'[h].pc = "mark")
             => /\ entered[Cur(h)] = 0
                /\ \A g \in Handlers \ {h} :
                      ~(pass[g].pc = "mark" /\ Cur(g) = Cur(h))]_vars
    /\ [][starts' = starts => processedMessages \subseteq processedMessages']_vars
    /\ [][starts' # starts => processedMessages' = {}]_vars

\* C20: within one pass the pages are applied in the order returned; the save
\* of a page's non-zero history id is issued after every record of the page
\* has been walked and before the next page is requested, which starts after
\* the last record of the page saved, and nothing else in a pass writes the
\* cursor.
C20_PageThenPersist ==
    /\ [](\A h \in Handlers :
             pass[h].pc = "persist"
             => /\ pass[h].idx = Len(pass[h].page)
                /\ \A k \in 1..Len(pass[h].page) :
                      HasMessage(PageMsg(h, k))
                         => PageMsg(h, k) \in processedMessages)
    /\ [][\A h \in Handlers :
             (pass'[h].pc = "list" /\ pass[h].pc \notin {"list", "idle"})
             => /\ pass[h].pc = "persist"
                /\ pass'[h].after = pass[h].page[Len(pass[h].page)]
                /\ (pass[h].reported # 0 /\ faults' = faults)
                      => fsDoc' = << pass[h].reported >>]_vars
    /\ [][\A h \in Handlers :
             (pass[h].pc = "list" /\ pass'[h].pc = "check")
             => /\ Len(pass'[h].page) >= 1
                /\ \A k \in 1..Len(pass'[h].page) :
                      pass'[h].page[k] = pass[h].after + k]_vars
    /\ [][fsDoc' # fsDoc
            => \/ proc = "init"
               \/ \E h \in Handlers :
                     /\ pass[h].pc = "persist"
                     /\ pass[h].reported # 0
                     /\ fsDoc' = << pass[h].reported >>]_vars

\* the only pass so far has saved the history id of its first page and has
\* walked its second page
C20_Witness ==
    /\ passes = 1
    /\ seeded = 1
    /\ writer = "pass"
    /\ \E h \in Handlers :
          /\ pass[h].pc = "persist"
          /\ pass[h].page = << 3 >>

\* the step in which the listing of handler h answers, and answers with a
\* page without history records
EmptyPage(h) ==
    /\ pass[h].pc = "list"
    /\ StepOf(h)
    /\ faults' = faults
    /\ Len(log) <= pass[h].after

\* C21: a pass whose listing returns a page without history records ends
\* there without an error (its caller is answered with 200), with no fetch,
\* download, transcription, reply or mark-read, with the processed-set and
\* the persisted cursor as they were; and a pass ends after the walk of a
\* page exactly when the mailbox named no further page, and otherwise only
\* at a listing.
C21_EmptyLog ==
    /\ [][\A h \in Handlers :
             EmptyPage(h)
             => /\ pass'[h] = Idle
                /\ http' = [req |-> pass[h].req, status |-> 200, err |-> "none"]
                /\ calls' = calls
                /\ outbox' = outbox
                /\ failed' = failed
                /\ processedMessages' = processedMessages
                /\ fsDoc' = fsDoc]_vars
    /\ [][\A h \in Handlers :
             (pass[h].pc = "persist" /\ StepOf(h))
             => pass'[h].pc = IF pass[h].more THEN "list" ELSE "idle"]_vars
    /\ [][\A h \in Handlers :
             (pass[h].pc # "idle" /\ pass'[h].pc = "idle" /\ proc' # "down")
             => pass[h].pc \in {"list", "persist"}]_vars
    /\ [][\A h \in Handlers :
             (pass[h].pc = "list" /\ pass'[h].pc = "check")
             => pass'[h].more = (pass'[h].page[Len(pass'[h].page)] < Len(log))]_vars

\* a notification was answered with 200 after a pass that found no record:
\* nothing fetched, the cursor where the seeding left it
C21_Witness ==
    /\ passes = 1
    /\ faults = 0
    /\ http.req.path = "/notify"
    /\ http.status = 200
    /\ http.err = "none"
    /\ writer = "seed"
    /\ \A m \in Msgs : calls[m].fetch = 0
    /\ \A h \in Handlers : pass[h].pc = "idle"

\* the step in which handler h passes a record that has no message
PassesOver(h) ==
    /\ pass[h].pc = "check"
    /\ StepOf(h)
    /\ ~HasMessage(Cur(h))

\* C22: a history record without a message-added entry, or with an entry
\* that has no message, puts nothing into the processed-set, causes no fetch
\* (nor any other call) and no error; the walk goes on with the next record,
\* or with the save of the page's history id, which stores it.
C22_OnlyMessageAdded ==
    /\ [](\A rec \in processedMessages : HasMessage(rec))
    /\ [](\A h \in Handlers :
             pass[h].pc \in {"mark", "save", "transcribe", "remove", "markread"}
             => HasMessage(Cur(h)))
    /\ [][\A h \in Handlers :
             PassesOver(h)
             => /\ processedMessages' = processedMessages
                /\ calls' = calls
                /\ entered' = entered
                /\ failed' = failed
                /\ faults' = faults
                /\ outbox' = outbox
                /\ pass'[h].reported = pass[h].reported
                /\ IF pass[h].idx < Len(pass[h].page)
                   THEN pass'[h].pc = "check" /\ pass'[h].idx = pass[h].idx + 1
                   ELSE pass'[h].pc = "persist"]_vars
    /\ [][PersistSaves]_vars

\* a pass has walked a page of a record without entries and a record whose
\* entry has no message, and has saved the page's history id
C22_Witness ==
    /\ Len(log) = 3
    /\ ~HasMessage(log[2])
    /\ ~HasMessage(log[3])
    /\ seeded = 1
    /\ writer = "pass"
    /\ fsDoc = << 3 >>
    /\ processedMessages = {}
    /\ failed = {}
    /\ \A m \in Msgs : calls[m].fetch = 0
    /\ \A h \in Handlers : pass[h].pc = "idle"

\* C23: the id of a message is in the processed-set from the step that
\* starts its full fetch on, and a message for which a step of the chain
\* (fetch, sender parse, attachment save, transcription) has failed is not
\* fetched again by any pass in the same process lifetime.
C23_OneAttemptEvenOnFailure ==
    /\ [][\A m \in Msgs :
             calls'[m].fetch > calls[m].fetch => m \in processedMessages']_vars
    /\ [][\A m \in Msgs :
             (starts = 1 /\ starts' = 1 /\ m \in failed)
             => calls'[m].fetch = calls[m].fetch]_vars

\* handler.go:94-98: notificationData.HistoryId of a request that got through
PayloadId(req) ==
    UnmarshalNotification(
        DecodeString(UnmarshalEnvelope(req.body).Data).bytes).HistoryId

\* the step in which handler h starts a pass for the notification req
StartsNotifyPass(h, req) ==
    /\ pass[h].pc = "idle"
    /\ pass'[h].pc = "list"
    /\ pass'[h].req = req

\* C24: a pass for a notification starts from the persisted cursor and from
\* nothing else: the pass started is the same whatever history id the
\* payload carries, a state that lets one notification start a pass lets
\* the notification with the other payload start it, and a payload history
\* id that is beyond the mailbox is never the start of a listing, never
\* reported by one and never in the store.
C24_CursorNotPayload ==
    /\ [][\A h \in Handlers : \A req \in Notifications :
             StartsNotifyPass(h, req)
             => /\ fsDoc # << >>
                /\ pass'[h] = [Idle EXCEPT !.pc = "list", !.req = req,
                                           !.after = fsDoc[1]]
                /\ fsDoc' = fsDoc
                /\ writer' = writer
                /\ processedMessages' = processedMessages
                /\ calls' = calls]_vars
    /\ [](\A h \in Handlers : \A r1, r2 \in Notifications :
             ENABLED (PubSubNotification(h) /\ StartsNotifyPass(h, r1))
             => ENABLED (PubSubNotification(h) /\ StartsNotifyPass(h, r2)))
    /\ [](\A req \in Notifications :
             PayloadId(req) > Len(log)
             => /\ fsDoc # << PayloadId(req) >>
                /\ \A h \in Handlers :
                      pass[h].pc # "idle"
                      => /\ pass[h].after # PayloadId(req)
                         /\ pass[h].reported # PayloadId(req))

\* two passes run that were started from the same persisted cursor by
\* notifications with different payload history ids, neither of them the
\* cursor
C24_Witness ==
    /\ pass["h1"].pc = "list"
    /\ pass["h2"].pc = "list"
    /\ PayloadId(pass["h1"].req) # PayloadId(pass["h2"].req)
    /\ fsDoc # << >>
    /\ pass["h1"].after = fsDoc[1]
    /\ pass["h2"].after = fsDoc[1]
    /\ PayloadId(pass["h1"].req) # fsDoc[1]
    /\ PayloadId(pass["h2"].req) # fsDoc[1]

\* handler.go:202-209: the From header is missing or is no address
Unparsed(m) == ParseAddress(GetHeader(Headers(m), "From")).err

\* C25: for a message whose From header is missing or does not parse as an
\* address there is no attachment download, no transcription, no reply and
\* no mark-read; after its fetch the walk goes on with the next record (or
\* with the save), and the save stores the page's history id.
C25_MalformedSender ==
    /\ [](\A m \in Msgs :
             Unparsed(m) =>
                 /\ calls[m].download = 0
                 /\ calls[m].transcribe = 0
                 /\ calls[m].markread = 0
                 /\ Replies(m) = 0)
    /\ [][\A h \in Handlers :
             ( /\ pass[h].pc = "mark"
               /\ StepOf(h)
               /\ faults' = faults
               /\ Unparsed(Cur(h)) )
             => /\ calls'[Cur(h)].fetch = calls[Cur(h)].fetch + 1
                /\ outbox' = outbox
                /\ files' = files
                /\ pass'[h].reported = pass[h].reported
                /\ IF pass[h].idx < Len(pass[h].page)
                   THEN pass'[h].pc = "check" /\ pass'[h].idx = pass[h].idx + 1
                   ELSE pass'[h].pc = "persist"]_vars
    /\ [][PersistSaves]_vars

\* a pass has fetched a message without From header and a message whose
\* From header is no address, one page, and has saved the page's history id
C25_Witness ==
    /\ log = << "m0", "m4", "m5" >>
    /\ GetHeader(Headers("m4"), "From") = ""
    /\ GetHeader(Headers("m5"), "From") # ""
    /\ calls["m4"].fetch = 1
    /\ calls["m5"].fetch = 1
    /\ faults = 0
    /\ passes = 1
    /\ writer = "pass"
    /\ fsDoc = << 3 >>
    /\ BagCardinality(outbox) = 0
    /\ \A h \in Handlers : pass[h].pc = "idle"

\* handler.go:216: the part has a filename and an attachment id
IsAttachment(part) == part.filename # "" /\ part.attachmentId # ""

\* handler.go:205-213: the sender parses and is the allow-listed one
Allowed(m) ==
    /\ ~ParseAddress(FromHeader(m)).err
    /\ ParseAddress(FromHeader(m)).Address = AllowedSender

\* the step in which handler h, inside the chain of a message, has done with
\* a part (or with the fetch) and goes for the next part or the next record
LeavesPart(h) ==
    /\ pass[h].pc \in {"mark", "save", "markread"}
    /\ StepOf(h)
    /\ pass'[h].pc # "transcribe"

\* C26: only a part with a non-empty filename and a non-empty attachment id
\* is handed to SaveAttachment and TranscribeAndRespond, and of a fetched
\* message of the allow-listed sender every such part is: the walk goes from
\* part to part in order, passes over exactly the parts that lack either,
\* and leaves the message only when no such part is left.
C26_AttachmentCriterion ==
    /\ [](\A h \in Handlers :
             pass[h].pc \in {"save", "transcribe", "remove", "markread"}
             => /\ Allowed(Cur(h))
                /\ pass[h].part \in 1..Len(Parts(Cur(h)))
                /\ IsAttachment(Parts(Cur(h))[pass[h].part]))
    /\ [][\A m \in Msgs :
             /\ calls'[m].download > calls[m].download
                  => \E h \in Handlers : pass[h].pc = "save" /\ Cur(h) = m
             /\ calls'[m].transcribe > calls[m].transcribe
                  => \E h \in Handlers : pass[h].pc = "transcribe" /\ Cur(h) = m]_vars
    /\ [][\A h \in Handlers :
             LeavesPart(h)
             => IF pass'[h].pc = "save"
                THEN /\ pass'[h].idx = pass[h].idx
                     /\ pass'[h].part > pass[h].part
                     /\ \A k \in (pass[h].part + 1)..(pass'[h].part - 1) :
                           ~IsAttachment(Parts(Cur(h))[k])
                ELSE \/ pass[h].pc = "mark"
                        /\ (faults' > faults \/ ~Allowed(Cur(h)))
                     \/ \A k \in (pass[h].part + 1)..Len(Parts(Cur(h))) :
                           ~IsAttachment(Parts(Cur(h))[k])]_vars

\* the one pass that fetched m3 (a part with a filename only, a part with an
\* attachment id only, two parts with both) is through with it after two
\* downloads and two transcriptions
C26_Witness ==
    /\ calls["m3"] = [fetch |-> 1, download |-> 2, transcribe |-> 2,
                      markread |-> 2]
    /\ \E j, k \in 1..Len(Parts("m3")) :
          /\ Parts("m3")[j].filename # "" /\ Parts("m3")[j].attachmentId = ""
          /\ Parts("m3")[k].filename = "" /\ Parts("m3")[k].attachmentId # ""
    /\ \A h \in Handlers : pass[h].pc = "idle"

\* the parts of m after part k that count as attachments
LaterAttachments(m, k) ==
    {j \in (k + 1)..Len(Parts(m)) : IsAttachment(Parts(m)[j])}

\* the step in which handler h goes from part j of its message to the save
\* of the first attachment part after j, if there is one
OnToNextAttachment(h) ==
    LaterAttachments(Cur(h), pass[h].part) # {}
    => /\ pass'[h].pc = "save"
       /\ pass'[h].idx = pass[h].idx
       /\ pass'[h].part \in LaterAttachments(Cur(h), pass[h].part)
       /\ \A j \in LaterAttachments(Cur(h), pass[h].part) : pass'[h].part <= j

\* C27: each attachment part of a message gets its own save attempt and,
\* once saved, its own transcription attempt, in part order: after a failed
\* save the walk goes to the save of the next attachment part, a
\* transcription that failed is followed by the delete and the mark-read of
\* that part and then by the save of the next attachment part, and the one
\* pass that walked a message has made a save attempt for every attachment
\* part of it and a transcription attempt for every part saved.
C27_IndependentAttachments ==
    /\ [][\A h \in Handlers :
             (pass[h].pc = "save" /\ StepOf(h) /\ faults' > faults)
             => /\ calls'[Cur(h)].transcribe = calls[Cur(h)].transcribe
                /\ OnToNextAttachment(h)]_vars
    /\ [][\A h \in Handlers :
             (pass[h].pc = "transcribe" /\ StepOf(h))
             => /\ pass'[h].pc = "remove"
                /\ pass'[h].part = pass[h].part
                /\ pass'[h].idx = pass[h].idx]_vars
    /\ [][\A h \in Handlers :
             (pass[h].pc = "remove" /\ StepOf(h))
             => /\ pass'[h].pc = "markread"
                /\ pass'[h].part = pass[h].part
                /\ pass'[h].idx = pass[h].idx]_vars
    /\ [][\A h \in Handlers :
             (pass[h].pc = "markread" /\ StepOf(h)) => OnToNextAttachment(h)]_vars
    /\ [][\A h \in Handlers :
             ( /\ pass[h].pc \in {"save", "markread"}
               /\ StepOf(h)
               /\ pass'[h].pc \in {"check", "persist"}
               /\ starts = 1
               /\ entered[Cur(h)] = 1 )
             => /\ calls'[Cur(h)].download = NumAtt(Cur(h))
                /\ calls'[Cur(h)].transcribe <= NumAtt(Cur(h))
                /\ calls'[Cur(h)].transcribe >= NumAtt(Cur(h)) - faults']_vars

\* the save of the first attachment of m3 has failed and the pass is about
\* to transcribe the file of the second
C27_Witness ==
    \E h \in Handlers :
        /\ pass[h].pc = "transcribe"
        /\ Cur(h) = "m3"
        /\ NumAtt("m3") = 2
        /\ LaterAttachments("m3", pass[h].part) = {}
        /\ "m3" \in failed
        /\ calls["m3"] = [fetch |-> 1, download |-> 2, transcribe |-> 0,
                          markread |-> 0]

\* the step in which the SaveAttachment call of handler h fails
SaveFails(h) ==
    /\ pass[h].pc = "save"
    /\ StepOf(h)
    /\ faults' > faults

\* C28: SaveAttachment returns an error and no path when the download, the
\* decoding or the write fails; after a failed save there is no
\* transcription, no reply, no delete and no mark-read for that part, the
\* error is on record for the message and the walk goes on with the next
\* attachment part (with the next record when there is none); a
\* transcription is only ever made of the path a successful save returned.
C28_SaveFailure ==
    /\ [](\A m \in Msgs : \A j \in 1..Len(Parts(m)) :
             \A err \in {"fetch", "decode", "write"} :
                 /\ SaveAttachmentReturns(m, j, err).path = ""
                 /\ SaveAttachmentReturns(m, j, err).err # "none")
    /\ [](\A h \in Handlers :
             pass[h].pc = "transcribe"
             => /\ pass[h].path # ""
                /\ pass[h].path = FilePath(Cur(h), pass[h].part))
    /\ [][\A h \in Handlers :
             SaveFails(h)
             => /\ pass'[h].path = ""
                /\ calls'[Cur(h)].download = calls[Cur(h)].download + 1
                /\ calls'[Cur(h)].transcribe = calls[Cur(h)].transcribe
                /\ calls'[Cur(h)].markread = calls[Cur(h)].markread
                /\ outbox' = outbox
                /\ files' = files
                /\ Cur(h) \in failed'
                /\ OnToNextAttachment(h)
                /\ LaterAttachments(Cur(h), pass[h].part) = {}
                      => IF pass[h].idx < Len(pass[h].page)
                         THEN /\ pass'[h].pc = "check"
                              /\ pass'[h].idx = pass[h].idx + 1
                         ELSE pass'[h].pc = "persist"]_vars

\* the save of the only attachment of m1 has failed: the pass has ended with
\* no transcription, no reply and no mark-read, the cursor saved
C28_Witness ==
    /\ calls["m1"] = [fetch |-> 1, download |-> 1, transcribe |-> 0,
                      markread |-> 0]
    /\ "m1" \in failed
    /\ BagCardinality(outbox) = 0
    /\ writer = "pass"
    /\ \A h \in Handlers : pass[h].pc = "idle"

\* C29: an email is sent only with the non-empty transcript of the first
\* alternative of the first channel of a successful transcription response;
\* a transcription step that sends no email leaves an error on record for
\* the message.
C29_ReplyOnlyOnTranscript ==
    /\ [](\A e \in BagToSet(outbox) : e.transcript \notin {"", NoTranscript})
    /\ [][\A h \in Handlers :
             (pass[h].pc = "transcribe" /\ StepOf(h) /\ outbox' = outbox)
             => Cur(h) \in failed']_vars

\* a 07 number of eleven digits
Number == << "0", "7", "1", "2", "3", "4", "5", "6", "7", "8", "9" >>

\* subject lines with the number on word boundaries, inside a word, inside a
\* longer run of digits, cut short, and absent
WithNumber == { Number,
                << "c", "a", "l", "l", " " >> \o Number,
                Number \o << " ", "h", "i" >>,
                << "a", " " >> \o Number \o << " ", "0", "7" >> }
WithoutNumber == { << >>,
                   << "h", "i" >>,
                   << "a" >> \o Number,
                   << "_" >> \o Number,
                   Number \o << "0" >>,
                   << "1" >> \o Number,
                   SubSeq(Number, 1, 10),
                   << "0", "8" >> \o SubSeq(Number, 3, 11) }

SubjectsNamed ==
    /\ \A subject \in WithNumber : extractPhoneNumber(subject) = Number
    /\ \A subject \in WithoutNumber : extractPhoneNumber(subject) = Unknown

\* the step in which the transcription call of handler h and the send succeed
Transcribes(h) ==
    /\ pass[h].pc = "transcribe"
    /\ StepOf(h)
    /\ faults' = faults
    /\ files[pass[h].path] # NoFile

\* C30: the caller of every email sent is the first run of 07 and nine
\* digits that stands on word boundaries in the subject of the message, and
\* the word Unknown when the subject has no such run; a transcription that
\* succeeded sends its email also for a subject without number.
C30_CallerIdentifier ==
    /\ [](SubjectsNamed)
    /\ [](\A e \in BagToSet(outbox) :
             LET subject == SubjectHeader(e.re)
                 at == {i \in 1..Len(subject) : MatchAt(subject, i)}
             IN  IF at = {}
                 THEN e.caller = Unknown
                 ELSE /\ Len(e.caller) = 11
                      /\ e.caller[1] = "0"
                      /\ e.caller[2] = "7"
                      /\ \A k \in 3..11 : e.caller[k] \in Digits
                      /\ \E i \in at :
                            /\ e.caller = SubSeq(subject, i, i + 10)
                            /\ \A j \in at : i <= j)
    /\ [][\A h \in Handlers :
             Transcribes(h)
             => /\ BagCardinality(outbox') = BagCardinality(outbox) + 1
                /\ \E e \in BagToSet(outbox') :
                      /\ e.re = Cur(h)
                      /\ CopiesIn(e, outbox') = CopiesIn(e, outbox) + 1
                      /\ e.caller \in {Number, Unknown}
                /\ failed' = failed]_vars

\* an email that names the caller 07123456789 of m1's subject and an email
\* for m3, whose subject has no number, with the caller Unknown
C30_Witness ==
    /\ \E e \in BagToSet(outbox) : e.re = "m1" /\ e.caller = Number
    /\ \E e \in BagToSet(outbox) : e.re = "m3" /\ e.caller = Unknown
    /\ \A i \in 1..Len(SubjectHeader("m3")) : ~MatchAt(SubjectHeader("m3"), i)

\* the step in which the TranscribeAndRespond call of handler h returns an
\* error (as it does when the transcription call was not answered in time)
TranscriptionFails(h) ==
    /\ pass[h].pc = "transcribe"
    /\ StepOf(h)
    /\ outbox' = outbox

\* the handler is behind a transcription that returned an error
BehindFailure(h) ==
    /\ pass[h].pc = "remove"
    /\ Cur(h) \in failed

C32_ValidationPrecedesPass ==
    /\ [](\A h \in Handlers :
             pass[h].req.path = "/notify"
             => /\ pass[h].req.method = "POST"
                /\ pass[h].req.contentType = "application/json")
    /\ [][(AnswersNotify /\ http'.req.method # "POST")
            => (http'.status = 405 /\ NothingDone)]_vars
    /\ [][( /\ AnswersNotify
            /\ http'.req.method = "POST"
            /\ http'.req.contentType # "application/json" )
            => (http'.status = 400 /\ NothingDone)]_vars

\* C33: the path of an attachment is its declared filename alone, and the
\* file a pass is about to transcribe holds the bytes that pass saved: no
\* other pass running at the same time has overwritten or deleted it.
C33_TransientFilesIsolated ==
    /\ \A m \in Msgs : \A j \in 1..Len(Parts(m)) :
           FilePath(m, j) = Parts(m)[j].filename
    /\ \A h \in Handlers :
           pass[h].pc = "transcribe" => files[pass[h].path] = Cur(h)

\* C34: MarkAsRead is called for a message only by a handler that has just
\* made a transcription attempt for one of its attachments (and deleted the
\* file): no other step of a pass marks anything read, every mark-read of a
\* message has a transcription attempt of that message before it, and a
\* message that was only skipped, not fetched, not from the allow-listed
\* sender, without attachment part or never saved is not marked read.
C34_MarkReadOnlyAfterAttempt ==
    /\ [](\A m \in Msgs :
             /\ calls[m].markread <= calls[m].transcribe
             /\ calls[m].transcribe <= calls[m].download
             /\ ~Eligible(m) => calls[m].markread = 0)
    /\ [][\A h \in Handlers :
             (StepOf(h) /\ pass[h].pc # "markread")
             => \A m \in Msgs : calls'[m].markread = calls[m].markread]_vars
    /\ [][\A h \in Handlers :
             (StepOf(h) /\ pass[h].pc = "markread")
             => /\ pass[h].tried
                /\ calls[Cur(h)].transcribe >= 1
                /\ pass[h].path = FilePath(Cur(h), pass[h].part)
                /\ \A m \in Msgs :
                      calls'[m].markread =
                         calls[m].markread + (IF m = Cur(h) THEN 1 ELSE 0)]_vars

\* a pass has walked m2, which is not from the allow-listed sender, and m1,
\* whose only save failed, and has ended with neither marked read
C34_Witness ==
    /\ calls["m2"] = [fetch |-> 1, download |-> 0, transcribe |-> 0,
                      markread |-> 0]
    /\ calls["m1"] = [fetch |-> 1, download |-> 1, transcribe |-> 0,
                      markread |-> 0]
    /\ \A h \in Handlers : pass[h].pc = "idle"
    /\ writer = "pass"

\* C35: AppState.ready is false from the start of a process until its
\* initialisation goroutine has finished, is set to true only by that
\* goroutine (once in a process) and is not set back to false in that
\* process; while it is true both the Gmail service and the Firestore client
\* have been created; and it is set to true whenever both were created,
\* whether or not the seeding of the cursor succeeded.
C35_ReadinessMonotonic ==
    /\ [](proc = "init" => ~ready /\ handles = {})
    /\ [](ready => handles = {"srv", "fsClient"})
    /\ [][(~ready /\ ready') => (proc = "init" /\ proc' = "up")]_vars
    /\ [][(ready /\ ~ready') => (proc = "down" /\ proc' = "init")]_vars
    /\ [][(proc = "init" /\ proc' = "up")
            => ready' = (handles' = {"srv", "fsClient"})]_vars

\* the initialisation has finished with both handles created and the seeding
\* failed (no document although the mailbox has a message): ready is set
C35_Witness ==
    /\ proc = "up"
    /\ ready
    /\ handles = {"srv", "fsClient"}
    /\ starts = 1
    /\ passes = 0
    /\ faults = 1
    /\ Len(log) > 0
    /\ fsDoc = << >>

\* the initialisation of the running process has ended with the Gmail
\* service or the Firestore client not created
FailedInit ==
    /\ proc = "up"
    /\ handles # {"srv", "fsClient"}

\* C36: a process whose initialisation failed to load the Gmail service or
\* to create the Firestore client is not ended by that failure and stays as
\* it is for as long as it runs: ready is never set, every /notify request
\* is answered 503 with nothing done, and no pass for a /notify request is
\* started or running.
C36_FailedInitPermanent ==
    /\ [](FailedInit
            => /\ ~ready
               /\ \A h \in Handlers :
                     pass[h].pc # "idle" => pass[h].req.path # "/notify")
    /\ [][(proc = "init" /\ pass' = pass /\ passes' = passes
                          /\ faults' > faults)
            => (proc' = "up" /\ ready' = ~FailedInit')]_vars
    /\ [][FailedInit => (FailedInit' \/ proc' = "down")]_vars
    /\ [][(FailedInit /\ AnswersNotify)
            => (http'.status = 503 /\ NothingDone)]_vars

\* the Gmail service was loaded, the Firestore client was not: both
\* notifications that followed were answered 503, the second just now
C36_Witness ==
    /\ FailedInit
    /\ handles = {"srv"}
    /\ IsTokenReady
    /\ passes = 2
    /\ http.req = Request("/notify", "application/json", WellFormed)
    /\ http.status = 503
    /\ \A m \in Msgs : calls[m] = NoCalls

\* the step in which the SaveHistoryIDToFirestore call of handler h fails
CursorSaveFails(h) ==
    /\ pass[h].pc = "persist"
    /\ StepOf(h)
    /\ faults' > faults

\* C37: when SaveHistoryIDToFirestore fails after a page, the persisted
\* cursor keeps its value, the ids of the page stay in the processed-set, and
\* the pass stops there: no further page is requested and the pass ends with
\* a pass-level error.
C37_CursorSaveFailure ==
    [][\A h \in Handlers :
          CursorSaveFails(h)
          => /\ fsDoc' = fsDoc
             /\ processedMessages' = processedMessages
             /\ pass'[h].pc = "idle"
             /\ http'.req = pass[h].req
             /\ http'.err # "none"]_vars

HoldsZero(data) ==
    /\ data # << >>
    /\ \/ data[1].type \in {"int64", "int"} /\ data[1].v = 0
       \/ data[1].type = "float64" /\ Trunc(data[1].v) \notin Uint64 \ {0}

====
